---- MODULE Spec2Model ----
(***************************************************************************)
(* Model of the VocaFuse Node.js SDK (vocafuse-node):                      *)
(*   - the error classifier   (src/errors/error-handler.ts,                *)
(*                             src/errors/vocafuse-error.ts)               *)
(*   - the retry interceptor  (Client.setupRetryInterceptor)               *)
(*   - the resource accessors (BaseResource and the resources built on it) *)
(*                                                                         *)
(* Strings the code parses (request paths, the Retry-After header) are     *)
(* sequences of tokens: "/" and the collection names are single tokens of  *)
(* a path, a header is a sequence of characters.  Opaque texts (messages,  *)
(* error codes, suggestions) are TLA+ strings.  A JavaScript value that    *)
(* may be undefined is <<>> (undefined) or <<v>> (the value v).            *)
(***************************************************************************)
EXTENDS Integers, Sequences, FiniteSets, TLC

VARIABLES
    retryConfig,  \* Client.retryConfig: [maxRetries, retryDelay, retryableStatuses]
    pc,           \* the current accessor call: "idle", "inflight" (awaiting the
                  \* transport), "sleeping" (backoff timer), "done", "failed"
    call,         \* name of the accessor operation called
    config,       \* the request config of the call, carrying _retryCount
    attempts,     \* HTTP requests sent for the call so far
    delays,       \* the delays handed to setTimeout for the call, in order
    history,      \* response?.status of every outcome the transport delivered
    lastError,    \* the failure the interceptor rejected with
    retried,      \* the response (status and Retry-After header) of the failure
                  \* the interceptor retried last
    result,       \* what the accessor returned to the caller
    thrown,       \* the errors the accessor threw to the caller
    clsInput,     \* the failure handed to handleApiError (classifier runs)
    clsOutput,    \* the typed error handleApiError returned for it
    gen,          \* the generator of voicenotes.iterate(): its locals and where
                  \* it is suspended
    consumed,     \* what the consumer of the generator did and received
    listCalls,    \* the query parameters of the list calls the generator issued
    pages,        \* the list responses the generator received
    httpClient,   \* the transport of the Client or AccessToken constructed:
                  \* [apiKey, baseURL, retries]
    authToken,    \* RequestValidator.authToken: the secret of the validator
    issued,       \* the signature computeSignature returned last, with the
                  \* secret and the arguments it was computed from
    checked,      \* the last validate call: its arguments and its outcome
    requests,     \* the requests of one Client that run concurrently, each
                  \* with its own request config: [pc, call, config, attempts,
                  \* history]
    built         \* the typed error a caller constructed with new, and the
                  \* arguments of the constructor

reqVars ==
    <<pc, call, config, attempts, delays, history, lastError, retried, result, thrown>>
clsVars == <<clsInput, clsOutput>>
iterVars == <<gen, consumed, listCalls, pages>>
envVars == <<httpClient>>
sigVars == <<authToken, issued, checked>>
concVars == <<requests>>
errVars == <<built>>
vars == <<retryConfig, reqVars, clsVars, iterVars, envVars, sigVars, concVars, errVars>>

(***************************************************************************)
(* JavaScript values                                                       *)
(***************************************************************************)
undefined == <<>>
Def(v) == <<v>>
IsDef(o) == o # <<>>
Val(o) == o[1]

\* truthiness of a string | undefined whose string is a token sequence
TruthyTokens(o) == IsDef(o) /\ Val(o) # <<>>
\* truthiness of a string | undefined whose string is an opaque text
TruthyText(o) == IsDef(o) /\ Val(o) # ""
\* a JavaScript number: NaN or an integer value
Num(n) == [nan |-> FALSE, v |-> n]
NaN == [nan |-> TRUE, v |-> 0]
\* truthiness of a number | undefined
TruthyNum(o) == IsDef(o) /\ ~Val(o).nan /\ Val(o).v # 0

\* String.prototype.includes on token sequences
includes(s, pat) ==
    \E i \in 1..(Len(s) - Len(pat) + 1) : SubSeq(s, i, i + Len(pat) - 1) = pat

(***************************************************************************)
(* Regular expressions of extractResourceId / detectResourceType.          *)
(* Every pattern is  <head> ([^/]+) <tail>  where an empty tail stands for *)
(* the group (?:\/|$).                                                     *)
(***************************************************************************)
RECURSIVE RunEnd(_, _)
\* index of the last token of the maximal run of non-"/" tokens starting at j
\* (j - 1 when the run is empty): the greedy match of [^/]+
RunEnd(s, j) ==
    IF j > Len(s) \/ s[j] = "/" THEN j - 1 ELSE RunEnd(s, j + 1)

patterns(resourceType) ==
    CASE resourceType = "voicenote" ->
            Def([head |-> <<"voicenotes", "/">>, tail |-> <<>>])
      [] resourceType = "webhook" ->
            Def([head |-> <<"webhooks", "/">>, tail |-> <<>>])
      [] resourceType = "api_key" ->
            Def([head |-> <<"api-keys", "/">>, tail |-> <<>>])
      [] resourceType = "transcription" ->
            Def([head |-> <<"voicenotes", "/">>, tail |-> <<"/", "transcription">>])
      [] OTHER -> undefined

\* whether the pattern matches with its first token at position i
MatchesAt(s, p, i) ==
    LET j == i + Len(p.head)
        e == RunEnd(s, j)
    IN  /\ i + Len(p.head) - 1 <= Len(s)
        /\ SubSeq(s, i, j - 1) = p.head
        /\ e >= j
        /\ e + Len(p.tail) <= Len(s)
        /\ SubSeq(s, e + 1, e + Len(p.tail)) = p.tail

\* String.prototype.match: undefined (null) or the first capture group of the
\* leftmost match
match(s, p) ==
    LET hits == {i \in 1..Len(s) : MatchesAt(s, p, i)}
    IN  IF hits = {} THEN undefined
        ELSE LET i == CHOOSE k \in hits : \A m \in hits : k <= m
                 j == i + Len(p.head)
             IN  Def(SubSeq(s, j, RunEnd(s, j)))

extractResourceId(url, resourceType) ==
    IF ~TruthyTokens(url) THEN undefined
    ELSE LET pattern == patterns(resourceType)
         IN  IF ~IsDef(pattern) THEN undefined
             ELSE match(Val(url), Val(pattern))

\* mutant: the voicenotes rule is tried before the transcription rule
detectResourceType_VoicenoteFirst(url) ==
    IF ~TruthyTokens(url) THEN undefined
    ELSE LET u == Val(url)
         IN  IF includes(u, <<"voicenotes", "/">>) \/ includes(u, <<"/", "voicenotes">>)
             THEN Def("voicenote")
             ELSE IF \/ includes(u, <<"/", "transcription">>)
                     \/ IsDef(match(u, Val(patterns("transcription"))))
             THEN Def("transcription")
             ELSE IF includes(u, <<"webhooks", "/">>) \/ includes(u, <<"/", "webhooks">>)
             THEN Def("webhook")
             ELSE IF includes(u, <<"api-keys", "/">>) \/ includes(u, <<"/", "api-keys">>)
             THEN Def("api_key")
             ELSE undefined

detectResourceType(url) ==
    IF ~TruthyTokens(url) THEN undefined
    ELSE LET u == Val(url)
         IN  IF \/ includes(u, <<"/", "transcription">>)
                \/ IsDef(match(u, Val(patterns("transcription"))))
             THEN Def("transcription")
             ELSE IF includes(u, <<"voicenotes", "/">>) \/ includes(u, <<"/", "voicenotes">>)
             THEN Def("voicenote")
             ELSE IF includes(u, <<"webhooks", "/">>) \/ includes(u, <<"/", "webhooks">>)
             THEN Def("webhook")
             ELSE IF includes(u, <<"api-keys", "/">>) \/ includes(u, <<"/", "api-keys">>)
             THEN Def("api_key")
             ELSE undefined

(***************************************************************************)
(* parseInt(s, 10) on a sequence of characters                             *)
(***************************************************************************)
Digits == <<"0", "1", "2", "3", "4", "5", "6", "7", "8", "9">>
IsDigit(c) == \E d \in 1..10 : Digits[d] = c
DigitValue(c) == (CHOOSE d \in 1..10 : Digits[d] = c) - 1

RECURSIVE SkipSpaces(_)
SkipSpaces(s) == IF s # <<>> /\ Head(s) = " " THEN SkipSpaces(Tail(s)) ELSE s

RECURSIVE DigitPrefix(_, _)
\* [n, v]: the number n of leading digits of s and their decimal value,
\* acc being the value of the digits read so far
DigitPrefix(s, acc) ==
    IF s # <<>> /\ IsDigit(Head(s))
    THEN LET r == DigitPrefix(Tail(s), acc * 10 + DigitValue(Head(s)))
         IN  [n |-> r.n + 1, v |-> r.v]
    ELSE [n |-> 0, v |-> acc]

parseInt(s) ==
    LET t == SkipSpaces(s)
        signed == t # <<>> /\ Head(t) \in {"+", "-"}
        sign == IF signed /\ Head(t) = "-" THEN -1 ELSE 1
        r == DigitPrefix(IF signed THEN Tail(t) ELSE t, 0)
    IN  IF r.n = 0 THEN NaN ELSE Num(sign * r.v)

(***************************************************************************)
(* The error taxonomy (vocafuse-error.ts).  A typed error is a record; its *)
(* class is its name, and the prototype chain is Parent.                   *)
(***************************************************************************)
EmptyContext ==
    [resourceType |-> undefined, resourceId |-> undefined,
     endpoint |-> undefined, suggestion |-> undefined]

\* { ...context }
Spread(context) == IF IsDef(context) THEN Val(context) ELSE EmptyContext

\* truthiness of a suggestion: a text is a sequence of parts, "" being <<"">>
TruthySuggestion(o) == IsDef(o) /\ Val(o) # <<>> /\ Val(o) # <<"">>

\* mutant: the default replaces the suggestion the caller supplied
WithSuggestion_AlwaysDefault(context, fallback) ==
    Def([Spread(context) EXCEPT !.suggestion = Def(fallback)])

\* { ...context, suggestion: context?.suggestion || fallback }
WithSuggestion(context, fallback) ==
    LET c == Spread(context)
    IN  Def([c EXCEPT !.suggestion =
                 IF TruthySuggestion(c.suggestion)
                 THEN c.suggestion ELSE Def(fallback)])

VocaFuseError(message, statusCode, errorCode, details, context) ==
    [name |-> "VocaFuseError", message |-> message, statusCode |-> statusCode,
     errorCode |-> errorCode, details |-> details, context |-> context,
     retryAfter |-> undefined]

AuthenticationError(message, errorCode, details, context) ==
    [VocaFuseError(message, Def(401), errorCode, details,
        WithSuggestion(context,
            <<"Verify your API key and secret are correct and not expired.">>))
     EXCEPT !.name = "AuthenticationError"]

AuthorizationError(message, errorCode, details, context) ==
    [VocaFuseError(message, Def(403), errorCode, details,
        WithSuggestion(context,
            <<"Check that your API key has the required permissions for this operation.">>))
     EXCEPT !.name = "AuthorizationError"]

ValidationError(message, errorCode, details, context) ==
    [VocaFuseError(message, Def(400), errorCode, details, context)
     EXCEPT !.name = "ValidationError"]

NotFoundError(message, errorCode, details, context) ==
    [VocaFuseError(message, Def(404), errorCode, details, context)
     EXCEPT !.name = "NotFoundError"]

ConflictError(message, errorCode, details, context) ==
    [VocaFuseError(message, Def(409), errorCode, details, context)
     EXCEPT !.name = "ConflictError"]

RateLimitError(message, errorCode, details, context, retryAfter) ==
    [VocaFuseError(message, Def(429), errorCode, details,
        WithSuggestion(context,
            IF TruthyNum(retryAfter)
            THEN <<"Rate limit exceeded. Retry after ", Val(retryAfter).v, " seconds.">>
            ELSE <<"Rate limit exceeded. Please reduce request frequency.">>))
     EXCEPT !.name = "RateLimitError", !.retryAfter = retryAfter]

ServerError(message, statusCode, errorCode, details, context) ==
    [VocaFuseError(message, Def(statusCode), errorCode, details,
        WithSuggestion(context,
            <<"This is a server-side issue. Please try again later or contact support if it persists.">>))
     EXCEPT !.name = "ServerError"]

ResourceContext(type, id, suggestion) ==
    Def([resourceType |-> Def(type), resourceId |-> id,
         endpoint |-> undefined, suggestion |-> Def(suggestion)])

VoicenoteNotFoundError(message, errorCode, details, voicenoteId) ==
    [NotFoundError(message, errorCode, details,
        ResourceContext("voicenote", voicenoteId,
            <<"Verify the voicenote ID exists and belongs to your account.">>))
     EXCEPT !.name = "VoicenoteNotFoundError"]

WebhookNotFoundError(message, errorCode, details, webhookId) ==
    [NotFoundError(message, errorCode, details,
        ResourceContext("webhook", webhookId,
            <<"Verify the webhook ID exists. Use client.webhooks.list() to see available webhooks.">>))
     EXCEPT !.name = "WebhookNotFoundError"]

TranscriptionNotFoundError(message, errorCode, details, voicenoteId) ==
    [NotFoundError(message, errorCode, details,
        ResourceContext("transcription", voicenoteId,
            <<"The voicenote may still be processing. Check voicenote.status before accessing transcription.">>))
     EXCEPT !.name = "TranscriptionNotFoundError"]

APIKeyNotFoundError(message, errorCode, details, apiKeyId) ==
    [NotFoundError(message, errorCode, details,
        ResourceContext("api_key", apiKeyId,
            <<"Verify the API key ID exists. Use client.apiKeys.list() to see available keys.">>))
     EXCEPT !.name = "APIKeyNotFoundError"]

NotFoundSubtypes ==
    {"VoicenoteNotFoundError", "WebhookNotFoundError",
     "TranscriptionNotFoundError", "APIKeyNotFoundError"}

ErrorNames ==
    {"VocaFuseError", "AuthenticationError", "AuthorizationError", "ValidationError",
     "NotFoundError", "ConflictError", "RateLimitError", "ServerError"}
    \cup NotFoundSubtypes

\* the superclass of each class: the "extends" clause of the error classes,
\* Error above the base class, Object above Error and nothing ("null") above
\* Object
Parent(name) ==
    IF name \in NotFoundSubtypes THEN "NotFoundError"
    ELSE IF name = "VocaFuseError" THEN "Error"
    ELSE IF name = "Error" THEN "Object"
    ELSE IF name \in {"Object", "null"} THEN "null"
    ELSE "VocaFuseError"

\* error instanceof cls, for a typed error: cls is on the prototype chain of
\* the error, which is at most five classes long
\* (subtype, NotFoundError, VocaFuseError, Error, Object)
InstanceOf(err, cls) ==
    \/ err.name = cls
    \/ Parent(err.name) = cls
    \/ Parent(Parent(err.name)) = cls
    \/ Parent(Parent(Parent(err.name))) = cls
    \/ Parent(Parent(Parent(Parent(err.name)))) = cls

(***************************************************************************)
(* handleApiError (error-handler.ts).  A failure is a record               *)
(*   kind     "VocaFuseError" | "AxiosError" | "Error" | "value"           *)
(*   typed    the typed error itself, when kind = "VocaFuseError"          *)
(*   message  Error.message                                                *)
(*   config   undefined, or [url, method, data, _retryCount]               *)
(*   response undefined, or [status, error, retry_after] where error is    *)
(*            response.data.error (undefined, or [message, code, details]) *)
(*            and retry_after is response.headers['retry-after']           *)
(***************************************************************************)
\* mutant: a parsed value of 0 is dropped (parseInt(...) || undefined)
retryAfterSeconds_DropZero(retryAfterHeader) ==
    IF TruthyTokens(retryAfterHeader) /\ TruthyNum(Def(parseInt(Val(retryAfterHeader))))
    THEN Def(parseInt(Val(retryAfterHeader)))
    ELSE undefined

\* retryAfterHeader ? parseInt(retryAfterHeader, 10) : undefined
retryAfterSeconds(retryAfterHeader) ==
    IF TruthyTokens(retryAfterHeader)
    THEN Def(parseInt(Val(retryAfterHeader)))
    ELSE undefined

\* mutant: 500 itself is not taken for a server error
IsServerStatus_Above500(statusCode) ==
    IsDef(statusCode) /\ Val(statusCode) # 0 /\ Val(statusCode) > 500

\* statusCode && statusCode >= 500
IsServerStatus(statusCode) ==
    IsDef(statusCode) /\ Val(statusCode) # 0 /\ Val(statusCode) >= 500

handleApiError(error) ==
    IF error.kind = "VocaFuseError" THEN Val(error.typed)
    ELSE IF error.kind # "AxiosError"
    THEN VocaFuseError(IF error.kind = "Error" THEN Val(error.message)
                       ELSE "Unknown error occurred",
                       undefined, undefined, undefined, undefined)
    ELSE
    LET response == error.response
        statusCode == IF IsDef(response) THEN Def(Val(response).status) ELSE undefined
        errorData == IF IsDef(response) THEN Val(response).error ELSE undefined
        message ==
            IF IsDef(errorData) /\ TruthyText(Val(errorData).message)
            THEN Val(Val(errorData).message)
            ELSE IF TruthyText(error.message) THEN Val(error.message)
            ELSE "An error occurred"
        errorCode == IF IsDef(errorData) THEN Val(errorData).code ELSE undefined
        details == IF IsDef(errorData) THEN Val(errorData).details ELSE undefined
        requestUrl == IF IsDef(error.config) THEN Val(error.config).url ELSE undefined
        resourceType == detectResourceType(requestUrl)
        resourceId == IF IsDef(resourceType)
                      THEN extractResourceId(requestUrl, Val(resourceType))
                      ELSE undefined
        endpoint == Def([EmptyContext EXCEPT !.endpoint = requestUrl])
    IN  CASE statusCode = Def(401) ->
                AuthenticationError(message, errorCode, details, endpoint)
          [] statusCode = Def(403) ->
                AuthorizationError(message, errorCode, details, endpoint)
          [] statusCode = Def(400) ->
                ValidationError(message, errorCode, details, endpoint)
          [] statusCode = Def(404) ->
                IF resourceType = Def("transcription")
                THEN TranscriptionNotFoundError(message, errorCode, details, resourceId)
                ELSE IF resourceType = Def("voicenote")
                THEN VoicenoteNotFoundError(message, errorCode, details, resourceId)
                ELSE IF resourceType = Def("webhook")
                THEN WebhookNotFoundError(message, errorCode, details, resourceId)
                ELSE IF resourceType = Def("api_key")
                THEN APIKeyNotFoundError(message, errorCode, details, resourceId)
                ELSE NotFoundError(message, errorCode, details, endpoint)
          [] statusCode = Def(409) ->
                ConflictError(message, errorCode, details, endpoint)
          [] statusCode = Def(429) ->
                LET retryAfterHeader == Val(response).retry_after
                IN  RateLimitError(message, errorCode, details, endpoint,
                                   retryAfterSeconds(retryAfterHeader))
          [] OTHER ->
                IF IsServerStatus(statusCode)
                THEN ServerError(message, Val(statusCode), errorCode, details, endpoint)
                ELSE VocaFuseError(message, statusCode, errorCode, details, endpoint)

(***************************************************************************)
(* Constants (utils/constants.ts) and the retry configuration              *)
(***************************************************************************)
MAX_RETRIES == 3
RETRY_DELAY == 1000
PAGE_LIMIT == 50
MAX_PAGE_LIMIT == 100
RETRYABLE_STATUS_CODES == {408, 429, 500, 502, 503, 504}

DEFAULT_RETRY_CONFIG ==
    [maxRetries |-> MAX_RETRIES, retryDelay |-> RETRY_DELAY,
     retryableStatuses |-> RETRYABLE_STATUS_CODES]

\* largest maxRetries a client is configured with
MaxRetriesBound == 3

\* the options.retry values clients are constructed with (Partial<RetryConfig>:
\* a field left out takes the default)
RetryOptions ==
    [maxRetries : 0..MaxRetriesBound,
     retryDelay : {10, RETRY_DELAY},
     retryableStatuses : {RETRYABLE_STATUS_CODES, {}, {400, 500}}]

\* Client.constructor: { ...DEFAULT_RETRY_CONFIG, ...options.retry }
MergeRetryConfig(retry) ==
    [k \in DOMAIN DEFAULT_RETRY_CONFIG |->
        IF k \in DOMAIN retry THEN retry[k] ELSE DEFAULT_RETRY_CONFIG[k]]

(***************************************************************************)
(* Environment resolution (utils/environment.ts) and the transport the     *)
(* Client and AccessToken constructors create.  An API key is a sequence   *)
(* of tokens, "sk", "_", "live" and "test" being tokens of their own.      *)
(***************************************************************************)
API_ENDPOINTS == [LIVE |-> "https://api.vocafuse.com", TEST |-> "https://test-api.vocafuse.com"]
API_KEY_PREFIXES == [LIVE |-> <<"sk", "_", "live", "_">>, TEST |-> <<"sk", "_", "test", "_">>]

\* String.prototype.startsWith
startsWith(s, prefix) ==
    Len(prefix) <= Len(s) /\ SubSeq(s, 1, Len(prefix)) = prefix

\* mutant: a key of neither prefix resolves to the test endpoint
detectBaseUrl_DefaultTest(apiKey) ==
    IF startsWith(apiKey, API_KEY_PREFIXES.LIVE) THEN API_ENDPOINTS.LIVE
    ELSE API_ENDPOINTS.TEST

detectBaseUrl(apiKey) ==
    IF startsWith(apiKey, API_KEY_PREFIXES.LIVE) THEN API_ENDPOINTS.LIVE
    ELSE IF startsWith(apiKey, API_KEY_PREFIXES.TEST) THEN API_ENDPOINTS.TEST
    ELSE API_ENDPOINTS.LIVE

\* axios.create({ baseURL: options.baseUrl || detectBaseUrl(options.apiKey), ... });
\* retries tells whether the retry interceptor is set up on the instance
createTransport(options, retries) ==
    [options |-> options,
     baseURL |-> IF TruthyText(options.baseUrl) THEN Val(options.baseUrl)
                 ELSE detectBaseUrl(options.apiKey),
     retries |-> retries]

\* the options of the client whose requests are followed
DefaultOptions == [apiKey |-> <<"sk", "_", "live", "_", "x">>, baseUrl |-> undefined]

(***************************************************************************)
(* RequestValidator (webhook signatures).  Payloads, timestamps, delivery  *)
(* ids, secrets and signatures are sequences of characters; "NUL" is the   *)
(* character U+0000.  A buffer is a sequence of bytes (0..255).            *)
(***************************************************************************)
\* the characters secrets and signed strings are made of
Alphabet == <<"a", ".", "1", "d", "k", "j">>
CharByte(c) == 96 + CHOOSE i \in 1..Len(Alphabet) : Alphabet[i] = c

\* bytes of a SHA-256 digest
DIGEST_BYTES == 32

RECURSIVE stripZeros(_)
\* the key of an HMAC is padded with zero bytes up to the block size, so a
\* secret (shorter than a block) stands for the same key with and without
\* trailing NUL characters
stripZeros(secret) ==
    IF secret # <<>> /\ secret[Len(secret)] = "NUL"
    THEN stripZeros(SubSeq(secret, 1, Len(secret) - 1))
    ELSE secret

\* createHmac('sha256', secret).update(message): HMAC-SHA256 taken for
\* collision-free, as an injective function of the padded key and the message
\* to DIGEST_BYTES bytes (the bytes of the key, a separator, the bytes of the
\* message, filled up with zero bytes)
createHmac(secret, message) ==
    LET key == stripZeros(secret)
        text == [i \in 1..Len(key) |-> IF key[i] = "NUL" THEN 1 ELSE CharByte(key[i])]
                \o <<255>> \o [i \in 1..Len(message) |-> CharByte(message[i])]
    IN  [i \in 1..DIGEST_BYTES |-> IF i <= Len(text) THEN text[i] ELSE 0]

HexChars == <<"0", "1", "2", "3", "4", "5", "6", "7", "8", "9", "a", "b", "c", "d", "e", "f">>
UpperHexChars == <<"0", "1", "2", "3", "4", "5", "6", "7", "8", "9", "A", "B", "C", "D", "E", "F">>

\* digest('hex'): two lower-case hexadecimal characters per byte
digestHex(bytes) ==
    [i \in 1..(2 * Len(bytes)) |->
        LET b == bytes[(i + 1) \div 2]
        IN  IF i % 2 = 1 THEN HexChars[(b \div 16) + 1] ELSE HexChars[(b % 16) + 1]]

\* the value of every hexadecimal character, of either case
HexValues ==
    [c \in {HexChars[v] : v \in 1..16} \cup {UpperHexChars[v] : v \in 1..16} |->
        (CHOOSE v \in 1..16 : HexChars[v] = c \/ UpperHexChars[v] = c) - 1]

\* the value of a hexadecimal character, -1 for any other character
unhex(c) == IF c \in DOMAIN HexValues THEN HexValues[c] ELSE -1

RECURSIVE validPairs(_, _)
\* the number of leading pairs of hexadecimal characters of s from pair n on
validPairs(s, n) ==
    IF 2 * n <= Len(s) /\ unhex(s[2 * n - 1]) >= 0 /\ unhex(s[2 * n]) >= 0
    THEN validPairs(s, n + 1) ELSE n - 1

\* Buffer.from(s, 'hex'): one byte per pair of hexadecimal characters, up to
\* the first pair that is not one (a last single character is dropped)
bufferFromHex(s) ==
    [i \in 1..validPairs(s, 1) |-> 16 * unhex(s[2 * i - 1]) + unhex(s[2 * i])]

\* crypto.timingSafeEqual: throws a RangeError for buffers of different length
timingSafeEqual(a, b) ==
    IF Len(a) # Len(b) THEN [threw |-> TRUE, value |-> FALSE]
    ELSE [threw |-> FALSE, value |-> \A i \in 1..Len(a) : a[i] = b[i]]

\* mutant: the delivery id is signed also when there is no timestamp
buildStringToSign_DeliveryAlone(payload, timestamp, deliveryId) ==
    IF TruthyTokens(timestamp) /\ TruthyTokens(deliveryId)
    THEN Val(timestamp) \o <<".">> \o Val(deliveryId) \o <<".">> \o payload
    ELSE IF TruthyTokens(timestamp) THEN Val(timestamp) \o <<".">> \o payload
    ELSE IF TruthyTokens(deliveryId) THEN Val(deliveryId) \o <<".">> \o payload
    ELSE payload

\* mutant: a timestamp is signed only together with a delivery id
buildStringToSign_DropTimestamp(payload, timestamp, deliveryId) ==
    IF TruthyTokens(timestamp) /\ TruthyTokens(deliveryId)
    THEN Val(timestamp) \o <<".">> \o Val(deliveryId) \o <<".">> \o payload
    ELSE payload

\* mutant: the parts are joined without the "." between them
buildStringToSign_NoSeparator(payload, timestamp, deliveryId) ==
    IF TruthyTokens(timestamp) /\ TruthyTokens(deliveryId)
    THEN Val(timestamp) \o Val(deliveryId) \o payload
    ELSE IF TruthyTokens(timestamp) THEN Val(timestamp) \o payload
    ELSE payload

buildStringToSign(payload, timestamp, deliveryId) ==
    IF TruthyTokens(timestamp) /\ TruthyTokens(deliveryId)
    THEN Val(timestamp) \o <<".">> \o Val(deliveryId) \o <<".">> \o payload
    ELSE IF TruthyTokens(timestamp) THEN Val(timestamp) \o <<".">> \o payload
    ELSE payload

\* RequestValidator.computeSignature of a validator whose authToken is secret
computeSignature(secret, payload, timestamp, deliveryId) ==
    digestHex(createHmac(secret, buildStringToSign(payload, timestamp, deliveryId)))

SHA256_PREFIX == <<"s", "h", "a", "2", "5", "6", "=">>

\* mutant: the prefix is left on the signature
providedSignature_KeepPrefix(signature) == signature

\* signature.startsWith('sha256=') ? signature.slice(7) : signature
providedSignature(signature) ==
    IF startsWith(signature, SHA256_PREFIX) THEN SubSeq(signature, 8, Len(signature))
    ELSE signature

\* try { return timingSafeEqual(a, b) } catch { return false }
tryCompare(a, b) ==
    LET r == timingSafeEqual(a, b)
    IN  IF r.threw THEN [threw |-> FALSE, value |-> FALSE] ELSE r

\* RequestValidator.validate of a validator whose authToken is secret:
\* [threw, value], the string it signed being stringToSign
validate(secret, payload, signature, options) ==
    LET stringToSign == buildStringToSign(payload, options.timestamp, options.deliveryId)
        expectedSignature == computeSignature(secret, stringToSign, undefined, undefined)
        r == tryCompare(bufferFromHex(providedSignature(signature)),
                        bufferFromHex(expectedSignature))
    IN  [threw |-> r.threw, value |-> r.value, stringToSign |-> stringToSign]

(***************************************************************************)
(* The resource accessors: each builds one request through BaseResource    *)
(***************************************************************************)
\* identifiers of remote resources, as the server issues them
ResourceIds == {"id_1"}

Request(method, endpoint, params, data) ==
    [method |-> method, url |-> Def(endpoint), params |-> params, data |-> data,
     _retryCount |-> undefined]

_get(endpoint, params) == Request("get", endpoint, params, undefined)
_post(endpoint, data) == Request("post", endpoint, undefined, Def(data))
_put(endpoint, data) == Request("put", endpoint, undefined, Def(data))
_delete(endpoint) == Request("delete", endpoint, undefined, undefined)

\* ListVoicenotesOptions values passed to voicenotes.list (undefined: no options;
\* a field that is undefined is left out)
ListOptions ==
    {undefined,
     Def([page |-> undefined, limit |-> Def(0), status |-> undefined,
          dateFrom |-> undefined, dateTo |-> undefined]),
     Def([page |-> Def(2), limit |-> Def(20), status |-> undefined,
          dateFrom |-> undefined, dateTo |-> undefined]),
     Def([page |-> undefined, limit |-> Def(150), status |-> undefined,
          dateFrom |-> undefined, dateTo |-> undefined]),
     Def([page |-> undefined, limit |-> Def(-5), status |-> undefined,
          dateFrom |-> undefined, dateTo |-> undefined]),
     Def([page |-> undefined, limit |-> undefined, status |-> Def("transcribed"),
          dateFrom |-> undefined, dateTo |-> undefined]),
     Def([page |-> Def(1), limit |-> Def(20), status |-> Def("transcribed"),
          dateFrom |-> Def("2024-01-01"), dateTo |-> Def("2024-12-31")]),
     Def([page |-> undefined, limit |-> undefined, status |-> Def(""),
          dateFrom |-> Def(""), dateTo |-> Def("2024-12-31")])}

Min(a, b) == IF a <= b THEN a ELSE b

\* VoicenotesResourceImpl.list: the query parameters sent.  page and limit
\* are always keys of the object; status, date_from and date_to are keys of it
\* only when the option is truthy (the conditional spreads)
ListParams(options) ==
    LET page == IF IsDef(options) THEN Val(options).page ELSE undefined
        limit == IF IsDef(options) THEN Val(options).limit ELSE undefined
        status == IF IsDef(options) THEN Val(options).status ELSE undefined
        dateFrom == IF IsDef(options) THEN Val(options).dateFrom ELSE undefined
        dateTo == IF IsDef(options) THEN Val(options).dateTo ELSE undefined
        params ==
            [page |-> Def(IF IsDef(page) /\ Val(page) # 0 THEN Val(page) ELSE 0),
             limit |-> Def(Min(IF IsDef(limit) /\ Val(limit) # 0 THEN Val(limit)
                               ELSE PAGE_LIMIT,
                               MAX_PAGE_LIMIT)),
             status |-> IF TruthyText(status) THEN status ELSE undefined,
             date_from |-> IF TruthyText(dateFrom) THEN dateFrom ELSE undefined,
             date_to |-> IF TruthyText(dateTo) THEN dateTo ELSE undefined]
    IN  [key \in {k \in DOMAIN params : IsDef(params[k])} |-> Val(params[key])]

\* every accessor operation with the request it sends
AccessorCalls ==
    {[op |-> "voicenotes.list", config |-> _get(<<"voicenotes">>, Def(ListParams(o)))] :
        o \in ListOptions}
    \cup UNION {
        {[op |-> "voicenote.get", config |-> _get(<<"voicenotes", "/", id>>, undefined)],
         [op |-> "voicenote.delete", config |-> _delete(<<"voicenotes", "/", id>>)],
         [op |-> "transcription.get",
          config |-> _get(<<"voicenotes", "/", id, "/", "transcription">>, undefined)],
         [op |-> "webhook.get", config |-> _get(<<"webhooks", "/", id>>, undefined)],
         [op |-> "webhook.update", config |-> _put(<<"webhooks", "/", id>>, "webhook")],
         [op |-> "webhook.delete", config |-> _delete(<<"webhooks", "/", id>>)],
         [op |-> "apiKey.get",
          config |-> _get(<<"account", "/", "api-keys", "/", id>>, undefined)],
         [op |-> "apiKey.delete",
          config |-> _delete(<<"account", "/", "api-keys", "/", id>>)]} :
        id \in ResourceIds}
    \cup
        {[op |-> "webhooks.list", config |-> _get(<<"webhooks">>, undefined)],
         [op |-> "webhooks.create", config |-> _post(<<"webhooks">>, "webhook")],
         [op |-> "apiKeys.list", config |-> _get(<<"account", "/", "api-keys">>, undefined)],
         [op |-> "apiKeys.create", config |-> _post(<<"account", "/", "api-keys">>, "name")],
         [op |-> "account.get", config |-> _get(<<"account">>, undefined)],
         [op |-> "account.update", config |-> _put(<<"account">>, "account")]}

(***************************************************************************)
(* What the transport can deliver for one attempt                          *)
(***************************************************************************)
\* failure statuses the server answers with in the request life cycle
FailureStatuses == {400, 401, 404, 429, 500, 503}

ErrorBodies ==
    {undefined,
     Def([message |-> Def("Server message"), code |-> Def("CODE"), details |-> undefined])}

AxiosError(message, cfg, response) ==
    [kind |-> "AxiosError", typed |-> undefined, message |-> Def(message),
     config |-> cfg, response |-> response]

\* the failures of a request sent with config cfg
TransportFailures(cfg) ==
    {AxiosError("Request failed with status code",
                Def(cfg),
                Def([status |-> s, error |-> b, retry_after |-> h])) :
        s \in FailureStatuses, b \in ErrorBodies, h \in {undefined}}
    \cup {AxiosError("Request failed with status code",
                Def(cfg),
                Def([status |-> 429, error |-> undefined, retry_after |-> Def(<<"7">>)]))}
    \cup {AxiosError("Network Error", Def(cfg), undefined),
          AxiosError("canceled", undefined, undefined),
          [kind |-> "Error", typed |-> undefined, message |-> Def("boom"),
           config |-> undefined, response |-> undefined],
          [kind |-> "value", typed |-> undefined, message |-> undefined,
           config |-> undefined, response |-> undefined]}

(***************************************************************************)
(* Client.setupRetryInterceptor: the rejection handler                     *)
(***************************************************************************)
RECURSIVE Pow2(_)
Pow2(n) == IF n <= 0 THEN 1 ELSE 2 * Pow2(n - 1)

\* mutant: one retry counter kept on the Client and shared by its requests
RetryCountOrZero_Shared(cfg) ==
    LET own == IF IsDef(cfg._retryCount) THEN Val(cfg._retryCount) ELSE 0
        counts == {own} \cup {Val(requests[i].config._retryCount) :
                        i \in {j \in 1..Len(requests) : IsDef(requests[j].config._retryCount)}}
    IN  CHOOSE c \in counts : \A d \in counts : d <= c

\* config._retryCount || 0
RetryCountOrZero(cfg) ==
    IF IsDef(cfg._retryCount) /\ Val(cfg._retryCount) # 0 THEN Val(cfg._retryCount) ELSE 0

\* mutant: the retry budget compared with <= instead of <
shouldRetry_OffByOne(error, retryCount) ==
    /\ retryCount <= retryConfig.maxRetries
    /\ IsDef(error.response)
    /\ Val(error.response).status \in retryConfig.retryableStatuses

\* mutant: the last retry of the budget is never taken
shouldRetry_OneFewer(error, retryCount) ==
    /\ retryCount + 1 < retryConfig.maxRetries
    /\ IsDef(error.response)
    /\ Val(error.response).status \in retryConfig.retryableStatuses

\* mutant: every failure response is retried, whatever its status
shouldRetry_AnyStatus(error, retryCount) ==
    /\ retryCount < retryConfig.maxRetries
    /\ IsDef(error.response)

\* mutant: a failure without a response (network error) is retried too
shouldRetry_NoResponse(error, retryCount) ==
    /\ retryCount < retryConfig.maxRetries
    /\ \/ ~IsDef(error.response)
       \/ Val(error.response).status \in retryConfig.retryableStatuses

\* mutant: only GET requests are retried
shouldRetry_GetOnly(error, retryCount) ==
    /\ retryCount < retryConfig.maxRetries
    /\ IsDef(error.response)
    /\ Val(error.response).status \in retryConfig.retryableStatuses
    /\ Val(error.config).method = "get"

\* mutant: the retry budget is not looked at
shouldRetry_IgnoreBudget(error, retryCount) ==
    /\ IsDef(error.response)
    /\ Val(error.response).status \in retryConfig.retryableStatuses

shouldRetry(error, retryCount) ==
    /\ retryCount < retryConfig.maxRetries
    /\ IsDef(error.response)
    /\ Val(error.response).status \in retryConfig.retryableStatuses

\* mutant: the exponent is the counter after the increment
backoffDelay_PostIncrement(retryCount) == retryConfig.retryDelay * Pow2(retryCount)

\* Exponential backoff: delay * 2^(retryCount - 1), retryCount already incremented
backoffDelay(retryCount) == retryConfig.retryDelay * Pow2(retryCount - 1)

\* what is kept of a failure that is retried
RetriedResponse(error) ==
    IF IsDef(error.response)
    THEN Def([status |-> Def(Val(error.response).status),
              retry_after |-> Val(error.response).retry_after])
    ELSE Def([status |-> undefined, retry_after |-> undefined])

\* mutant: a retried 429 waits for the seconds its Retry-After header names
onRejected_HonourRetryAfter(error) ==
    IF ~IsDef(error.config)
    THEN [retry |-> FALSE, config |-> config, delay |-> 0]
    ELSE LET cfg == Val(error.config)
             counted == [cfg EXCEPT !._retryCount = Def(RetryCountOrZero(cfg))]
         IN  IF ~shouldRetry(error, Val(counted._retryCount))
             THEN [retry |-> FALSE, config |-> counted, delay |-> 0]
             ELSE LET next == Val(counted._retryCount) + 1
                      wait == retryAfterSeconds(Val(error.response).retry_after)
                  IN  [retry |-> TRUE,
                       config |-> [counted EXCEPT !._retryCount = Def(next)],
                       delay |-> IF TruthyNum(wait) THEN 1000 * Val(wait).v
                                 ELSE backoffDelay(next)]

\* [retry, config, delay]: whether the request is resubmitted, the request
\* config as the handler leaves it, and the delay slept before resubmitting
onRejected(error) ==
    IF ~IsDef(error.config)
    THEN [retry |-> FALSE, config |-> config, delay |-> 0]
    ELSE LET cfg == Val(error.config)
             counted == [cfg EXCEPT !._retryCount = Def(RetryCountOrZero(cfg))]
         IN  IF ~shouldRetry(error, Val(counted._retryCount))
             THEN [retry |-> FALSE, config |-> counted, delay |-> 0]
             ELSE LET next == Val(counted._retryCount) + 1
                  IN  [retry |-> TRUE,
                       config |-> [counted EXCEPT !._retryCount = Def(next)],
                       delay |-> backoffDelay(next)]

\* mutant: the failure of the first attempt is the one the call rejects with
Rejection_FirstResponse(error, cfg) ==
    LET e == IF IsDef(error.config) THEN [error EXCEPT !.config = Def(cfg)] ELSE error
    IN  IF history # <<>> /\ IsDef(history[1]) /\ IsDef(error.response)
        THEN [e EXCEPT !.response = Def([Val(@) EXCEPT !.status = Val(history[1])])]
        ELSE e

\* the rejection as the accessor's catch block sees it: error.config is the
\* request config object the handler wrote _retryCount to
Rejection(error, cfg) ==
    IF IsDef(error.config) THEN [error EXCEPT !.config = Def(cfg)] ELSE error

\* mutant: the catch block rethrows the transport failure as it is
Catch_Rethrow(error) == error

\* BaseResource._get/_post/_put/_delete: catch (error) { throw handleApiError(error) }
Catch(error) == handleApiError(error)

(***************************************************************************)
(* The life cycle of accessor calls on one Client                          *)
(***************************************************************************)
IdleRequest ==
    /\ pc = "idle"
    /\ call = "none"
    /\ config = Request("none", <<>>, undefined, undefined)
    /\ attempts = 0
    /\ delays = <<>>
    /\ history = <<>>
    /\ lastError = undefined
    /\ retried = undefined
    /\ result = undefined
    /\ thrown = <<>>

\* the frame of a voicenotes.iterate() generator: where it is suspended
\* ("none": no generator yet, "suspendedStart": created and not yet run,
\* "awaiting": awaiting this.list, "suspendedYield": at the yield, "completed"),
\* its argument, its locals page and hasMore, the response being walked by the
\* for-of loop and the number of its items already yielded
NoGenerator ==
    [state |-> "none", options |-> undefined, page |-> 0, hasMore |-> TRUE,
     response |-> undefined, idx |-> 0]

\* no iteration is going on
IdleIterator ==
    /\ gen = NoGenerator
    /\ consumed = [pulls |-> 0, items |-> <<>>, end |-> "open", error |-> undefined]
    /\ listCalls = <<>>
    /\ pages = <<>>

\* no RequestValidator is constructed
NoValidator ==
    /\ authToken = undefined
    /\ issued = undefined
    /\ checked = undefined

\* no requests run concurrently
NoRequests == requests = <<>>

\* no typed error is constructed by the caller
NoError == built = undefined

\* new Client(options)
Init ==
    /\ retryConfig \in {MergeRetryConfig(r) : r \in RetryOptions}
    /\ IdleRequest
    /\ clsInput = undefined
    /\ clsOutput = undefined
    /\ IdleIterator
    /\ httpClient = createTransport(DefaultOptions, TRUE)
    /\ NoValidator
    /\ NoRequests
    /\ NoError

\* the caller invokes an accessor operation; the first request is sent
Call ==
    /\ pc \in {"idle", "done", "failed"}
    /\ \E c \in AccessorCalls :
        /\ call' = c.op
        /\ config' = c.config
    /\ pc' = "inflight"
    /\ attempts' = 1
    /\ delays' = <<>>
    /\ history' = <<>>
    /\ lastError' = undefined
    /\ retried' = undefined
    /\ result' = undefined
    /\ thrown' = <<>>
    /\ UNCHANGED <<retryConfig, clsVars, iterVars, envVars, sigVars, concVars, errVars>>

\* the transport answers 2xx: the interceptor passes the response through and
\* the accessor returns response.data; _delete awaits the response and returns
\* nothing, so that a delete resolves to undefined
RespondSuccess ==
    /\ pc = "inflight"
    /\ pc' = "done"
    /\ history' = Append(history, Def(200))
    /\ result' = IF config.method = "delete" THEN undefined ELSE Def("data")
    /\ UNCHANGED <<retryConfig, call, config, attempts, delays, lastError, retried, thrown, clsVars,
                   iterVars, envVars, sigVars, concVars, errVars>>

\* the transport fails the attempt: the interceptor's rejection handler runs and
\* either rejects (the accessor then throws the classified error) or starts the
\* backoff timer
RespondFailure ==
    /\ pc = "inflight"
    /\ \E error \in TransportFailures(config) :
        LET r == onRejected(error)
        IN  /\ history' = Append(history,
                    IF IsDef(error.response) THEN Def(Val(error.response).status)
                    ELSE undefined)
            /\ config' = r.config
            /\ IF r.retry
               THEN /\ pc' = "sleeping"
                    /\ delays' = Append(delays, r.delay)
                    /\ retried' = RetriedResponse(error)
                    /\ UNCHANGED <<lastError, thrown>>
               ELSE /\ pc' = "failed"
                    /\ lastError' = Def(Rejection(error, r.config))
                    /\ thrown' = Append(thrown, Catch(Rejection(error, r.config)))
                    /\ UNCHANGED <<delays, retried>>
    /\ UNCHANGED <<retryConfig, call, attempts, result, clsVars, iterVars, envVars,
                   sigVars, concVars, errVars>>

\* the backoff timer fires: this.httpClient.request(config)
TimerFires ==
    /\ pc = "sleeping"
    /\ pc' = "inflight"
    /\ attempts' = attempts + 1
    /\ UNCHANGED <<retryConfig, call, config, delays, history, lastError, retried, result, thrown,
                   clsVars, iterVars, envVars, sigVars, concVars, errVars>>

Next == Call \/ RespondSuccess \/ RespondFailure \/ TimerFires

Spec == Init /\ [][Next]_vars

\* the transport settles every attempt (axios resolves or rejects the promise of
\* each request sent) and every timer set with setTimeout fires
Fairness ==
    /\ WF_vars(RespondSuccess \/ RespondFailure)
    /\ WF_vars(TimerFires)

SpecFair == Spec /\ Fairness

(***************************************************************************)
(* Several requests of one Client in flight at once.  Each accessor call   *)
(* has a request config of its own, the interceptor's handler runs once    *)
(* per failed attempt with the locals of that run, and the handlers of     *)
(* different requests interleave at their awaits.                          *)
(***************************************************************************)
\* the number of requests in flight at once
MaxRequests == 2

\* the retry options of the client whose requests overlap
ConcurrentRetryOptions == {[maxRetries |-> m] : m \in 0..2}

ConcurrentCalls == {c \in AccessorCalls : c.op \in {"voicenote.get", "webhooks.create"}}

\* what the transport delivers to one of the overlapping requests
ConcurrentFailures(cfg) ==
    {e \in TransportFailures(cfg) :
        /\ e.kind = "AxiosError"
        /\ IsDef(e.config)
        /\ IsDef(e.response) =>
            /\ Val(e.response).status \in {404, 500}
            /\ Val(e.response).error = undefined}

\* new Client({ retry })
ConcurrentInit ==
    /\ retryConfig \in {MergeRetryConfig(r) : r \in ConcurrentRetryOptions}
    /\ IdleRequest
    /\ clsInput = undefined
    /\ clsOutput = undefined
    /\ IdleIterator
    /\ httpClient = createTransport(DefaultOptions, TRUE)
    /\ NoValidator
    /\ NoRequests
    /\ NoError

\* the caller invokes an accessor while earlier calls are still running
ConcurrentCall ==
    /\ Len(requests) < MaxRequests
    /\ \E c \in ConcurrentCalls :
        requests' = Append(requests,
            [pc |-> "inflight", call |-> c.op, config |-> c.config, attempts |-> 1,
             history |-> <<>>])
    /\ UNCHANGED <<retryConfig, reqVars, clsVars, iterVars, envVars, sigVars, errVars>>

\* the transport answers one of the requests 2xx
ConcurrentSuccess ==
    /\ \E i \in 1..Len(requests) :
        /\ requests[i].pc = "inflight"
        /\ requests' = [requests EXCEPT ![i].pc = "done",
                                        ![i].history = Append(@, Def(200))]
    /\ UNCHANGED <<retryConfig, reqVars, clsVars, iterVars, envVars, sigVars, errVars>>

\* the transport fails an attempt of one of the requests: the rejection handler
\* runs for it, up to its await of the backoff timer or to its rejection
ConcurrentFailure ==
    /\ \E i \in 1..Len(requests) :
        /\ requests[i].pc = "inflight"
        /\ \E error \in ConcurrentFailures(requests[i].config) :
            LET r == onRejected(error)
            IN  requests' = [requests EXCEPT
                    ![i].pc = IF r.retry THEN "sleeping" ELSE "failed",
                    ![i].config = r.config,
                    ![i].history = Append(@,
                        IF IsDef(error.response) THEN Def(Val(error.response).status)
                        ELSE undefined)]
    /\ UNCHANGED <<retryConfig, reqVars, clsVars, iterVars, envVars, sigVars, errVars>>

\* the backoff timer of one of the requests fires: this.httpClient.request(config)
ConcurrentTimer ==
    /\ \E i \in 1..Len(requests) :
        /\ requests[i].pc = "sleeping"
        /\ requests' = [requests EXCEPT ![i].pc = "inflight", ![i].attempts = @ + 1]
    /\ UNCHANGED <<retryConfig, reqVars, clsVars, iterVars, envVars, sigVars, errVars>>

ConcurrentNext == ConcurrentCall \/ ConcurrentSuccess \/ ConcurrentFailure \/ ConcurrentTimer

SpecConcurrent == ConcurrentInit /\ [][ConcurrentNext]_vars

(***************************************************************************)
(* The classifier on its own: handleApiError applied to failures of every  *)
(* shape (request paths up to MaxUrlLen tokens, every HTTP status, headers *)
(* up to MaxHeaderLen characters)                                          *)
(***************************************************************************)
MaxUrlLen == 5
MaxHeaderLen == 2

PathTokens ==
    {"/", "voicenotes", "webhooks", "api-keys", "transcription", "account", "id_1"}
HeaderChars == {"0", "1", "6", "-", " ", "x"}

RECURSIVE SeqsUpTo(_, _)
\* the sequences over S of length at most n
SeqsUpTo(S, n) ==
    IF n = 0 THEN {<<>>}
    ELSE LET r == SeqsUpTo(S, n - 1) IN r \cup {Append(q, t) : q \in r, t \in S}

SampleUrls ==
    {undefined, Def(<<"account">>), Def(<<"voicenotes", "/", "id_1">>),
     Def(<<"/", "webhooks", "/", "id_1">>)}
RetryAfterHeaders == {undefined} \cup {Def(h) : h \in SeqsUpTo(HeaderChars, MaxHeaderLen)}
HttpStatuses == 100..599
ClassifierBodies ==
    ErrorBodies \cup
    {Def([message |-> undefined, code |-> undefined, details |-> Def("details")]),
     Def([message |-> Def(""), code |-> Def("CODE"), details |-> undefined])}
ErrorMessages == {Def("Request failed"), Def("")}

ConfigFor(url) == [Request("get", <<>>, undefined, undefined) EXCEPT !.url = url]

\* a 404 answered to a request for the path url
NotFoundAt(url) ==
    AxiosError("Request failed", Def(ConfigFor(url)),
               Def([status |-> 404, error |-> undefined, retry_after |-> undefined]))

ClassifierInputs ==
    \* every status, with and without a body message
    {[kind |-> "AxiosError", typed |-> undefined, message |-> m,
           config |-> Def(ConfigFor(u)),
           response |-> Def([status |-> st, error |-> b, retry_after |-> undefined])] :
        st \in HttpStatuses, u \in SampleUrls, b \in ClassifierBodies, m \in ErrorMessages}
    \* a 429 with every Retry-After header
    \cup {AxiosError("Request failed", Def(ConfigFor(undefined)),
                Def([status |-> 429, error |-> undefined, retry_after |-> h])) :
        h \in RetryAfterHeaders}
    \* failures without a response, without a config, and failures that are
    \* not transport errors
    \cup {[kind |-> k, typed |-> undefined, message |-> m,
           config |-> c, response |-> undefined] :
        k \in {"AxiosError", "Error"}, m \in ErrorMessages,
        c \in {undefined, Def(ConfigFor(Def(<<"voicenotes", "/", "id_1">>)))}}
    \cup {[kind |-> "value", typed |-> undefined, message |-> undefined,
           config |-> undefined, response |-> undefined]}
    \* a failure that is a typed error already
    \cup {[kind |-> "VocaFuseError", typed |-> Def(t), message |-> Def(t.message),
           config |-> undefined, response |-> undefined] :
        t \in {VocaFuseError("Original error", Def(400), undefined, undefined, undefined),
               VoicenoteNotFoundError("gone", undefined, undefined, Def(<<"id_1">>))}}

ClassifyInit ==
    /\ retryConfig = DEFAULT_RETRY_CONFIG
    /\ IdleRequest
    /\ clsInput = undefined
    /\ clsOutput = undefined
    /\ IdleIterator
    /\ httpClient = createTransport(DefaultOptions, TRUE)
    /\ NoValidator
    /\ NoRequests
    /\ NoError

\* handleApiError(error)
Classify ==
    /\ clsInput = undefined
    /\ \E error \in ClassifierInputs :
        /\ clsInput' = Def(error)
        /\ clsOutput' = Def(handleApiError(error))
    /\ UNCHANGED <<retryConfig, reqVars, iterVars, envVars, sigVars, concVars, errVars>>

\* handleApiError(error) for a 404 against any path of at most MaxUrlLen tokens
ClassifyNotFound ==
    /\ clsInput = undefined
    /\ \E k \in 0..MaxUrlLen : \E f \in [1..k -> PathTokens] :
        LET error == NotFoundAt(Def(SubSeq(f, 1, k)))
        IN  /\ clsInput' = Def(error)
            /\ clsOutput' = Def(handleApiError(error))
    /\ UNCHANGED <<retryConfig, reqVars, iterVars, envVars, sigVars, concVars, errVars>>

\* the caller drops the typed error
Forget ==
    /\ clsInput # undefined
    /\ clsInput' = undefined
    /\ clsOutput' = undefined
    /\ UNCHANGED <<retryConfig, reqVars, iterVars, envVars, sigVars, concVars, errVars>>

ClassifyNext == Classify \/ ClassifyNotFound \/ Forget

SpecClassify == ClassifyInit /\ [][ClassifyNext]_vars

(***************************************************************************)
(* The error classes on their own: every specialized class constructed     *)
(* with and without a context, a suggestion and a retryAfter               *)
(***************************************************************************)
CallerSuggestions ==
    {undefined, Def(<<"">>), Def(<<"Ask the account owner.">>)}

\* ErrorContext values a caller passes (undefined: no context argument)
CallerContexts ==
    {undefined}
    \cup {Def([resourceType |-> undefined, resourceId |-> undefined,
               endpoint |-> e, suggestion |-> g]) :
            e \in {undefined, Def(<<"/", "voicenotes">>)}, g \in CallerSuggestions}

CallerMessages == {"Request failed", ""}
CallerStatuses == {500, 503}
CallerRetryAfters == {undefined, Def(Num(0)), Def(Num(60)), Def(NaN)}
CallerResourceIds == {undefined, Def(<<"id_1">>)}

ConstructInit ==
    /\ retryConfig = DEFAULT_RETRY_CONFIG
    /\ IdleRequest
    /\ clsInput = undefined
    /\ clsOutput = undefined
    /\ IdleIterator
    /\ httpClient = createTransport(DefaultOptions, TRUE)
    /\ NoValidator
    /\ NoRequests
    /\ NoError

Constructed(name, context, retryAfter, id, error) ==
    Def([name |-> name, context |-> context, retryAfter |-> retryAfter, id |-> id,
         error |-> error])

\* new AuthenticationError / AuthorizationError / ValidationError / NotFoundError /
\* ConflictError (message, undefined, undefined, context)
ConstructByStatus ==
    /\ built = undefined
    /\ \E message \in CallerMessages, context \in CallerContexts :
        \/ built' = Constructed("AuthenticationError", context, undefined, undefined,
                AuthenticationError(message, undefined, undefined, context))
        \/ built' = Constructed("AuthorizationError", context, undefined, undefined,
                AuthorizationError(message, undefined, undefined, context))
        \/ built' = Constructed("ValidationError", context, undefined, undefined,
                ValidationError(message, undefined, undefined, context))
        \/ built' = Constructed("NotFoundError", context, undefined, undefined,
                NotFoundError(message, undefined, undefined, context))
        \/ built' = Constructed("ConflictError", context, undefined, undefined,
                ConflictError(message, undefined, undefined, context))
    /\ UNCHANGED <<retryConfig, reqVars, clsVars, iterVars, envVars, sigVars, concVars>>

\* new RateLimitError(message, undefined, undefined, context, retryAfter)
ConstructRateLimit ==
    /\ built = undefined
    /\ \E message \in CallerMessages, context \in CallerContexts,
          retryAfter \in CallerRetryAfters :
        built' = Constructed("RateLimitError", context, retryAfter, undefined,
                RateLimitError(message, undefined, undefined, context, retryAfter))
    /\ UNCHANGED <<retryConfig, reqVars, clsVars, iterVars, envVars, sigVars, concVars>>

\* new ServerError(message, statusCode, undefined, undefined, context)
ConstructServer ==
    /\ built = undefined
    /\ \E message \in CallerMessages, context \in CallerContexts,
          statusCode \in CallerStatuses :
        built' = Constructed("ServerError", context, undefined, undefined,
                ServerError(message, statusCode, undefined, undefined, context))
    /\ UNCHANGED <<retryConfig, reqVars, clsVars, iterVars, envVars, sigVars, concVars>>

\* new VoicenoteNotFoundError / WebhookNotFoundError / TranscriptionNotFoundError /
\* APIKeyNotFoundError (message, undefined, undefined, id)
ConstructResource ==
    /\ built = undefined
    /\ \E message \in CallerMessages, id \in CallerResourceIds :
        \/ built' = Constructed("VoicenoteNotFoundError", undefined, undefined, id,
                VoicenoteNotFoundError(message, undefined, undefined, id))
        \/ built' = Constructed("WebhookNotFoundError", undefined, undefined, id,
                WebhookNotFoundError(message, undefined, undefined, id))
        \/ built' = Constructed("TranscriptionNotFoundError", undefined, undefined, id,
                TranscriptionNotFoundError(message, undefined, undefined, id))
        \/ built' = Constructed("APIKeyNotFoundError", undefined, undefined, id,
                APIKeyNotFoundError(message, undefined, undefined, id))
    /\ UNCHANGED <<retryConfig, reqVars, clsVars, iterVars, envVars, sigVars, concVars>>

ConstructNext ==
    ConstructByStatus \/ ConstructRateLimit \/ ConstructServer \/ ConstructResource

SpecConstruct == ConstructInit /\ [][ConstructNext]_vars

(***************************************************************************)
(* voicenotes.iterate(): the async generator, its consumer and the list    *)
(* calls it makes through the retry interceptor                            *)
(***************************************************************************)
\* the server holds at most MaxPages pages of at most MaxPageItems voicenotes
MaxPages == 3
MaxPageItems == 2

\* the options iterate() is called with
IterateOptions ==
    {undefined,
     Def([page |-> Def(0), limit |-> undefined, status |-> undefined,
          dateFrom |-> undefined, dateTo |-> undefined]),
     Def([page |-> Def(2), limit |-> Def(20), status |-> undefined,
          dateFrom |-> undefined, dateTo |-> undefined]),
     Def([page |-> undefined, limit |-> undefined, status |-> Def("transcribed"),
          dateFrom |-> undefined, dateTo |-> undefined]),
     Def([page |-> Def(1), limit |-> undefined, status |-> Def("transcribed"),
          dateFrom |-> Def("2024-01-01"), dateTo |-> undefined])}

\* the retry options of the clients that iterate
IterateRetryOptions == {[maxRetries |-> m] : m \in 0..1}

\* the body of a 2xx answer to list call number k: n voicenotes and the
\* pagination block
ListResponse(k, n, pagination) ==
    [data |-> [i \in 1..n |-> [id |-> <<"vn", k, i>>]], pagination |-> pagination]

Paginations ==
    {undefined, Def([has_more |-> Def(TRUE)]), Def([has_more |-> Def(FALSE)]),
     Def([has_more |-> undefined])}

\* let page = options?.page || 0
startPage(options) ==
    IF IsDef(options) /\ IsDef(Val(options).page) /\ Val(Val(options).page) # 0
    THEN Val(Val(options).page) ELSE 0

\* { ...options, page }: every field of the options, with page replaced
withPage(options, page) ==
    Def([(IF IsDef(options) THEN Val(options)
          ELSE [page |-> undefined, limit |-> undefined, status |-> undefined,
                dateFrom |-> undefined, dateTo |-> undefined])
         EXCEPT !.page = Def(page)])

\* response.pagination?.has_more ?? false
hasMoreOf(response) ==
    IF IsDef(response.pagination) /\ IsDef(Val(response.pagination).has_more)
    THEN Val(Val(response.pagination).has_more)
    ELSE FALSE

\* mutant: the page after a page is two further on
nextPage_Skip(page) == page + 2

\* page += 1
nextPage(page) == page + 1

\* the generator run from its start to the first await
start(g) ==
    [g EXCEPT !.page = startPage(g.options), !.hasMore = TRUE, !.state = "awaiting"]

\* mutant: the next page is requested as soon as the last voicenote of a page
\* is yielded
resume_Prefetch(g) ==
    LET data == Val(g.response).data
        more == hasMoreOf(Val(g.response))
    IN  IF g.idx < Len(data) /\ ~(g.idx + 1 = Len(data) /\ g.idx > 0 /\ more)
        THEN [g EXCEPT !.state = "suspendedYield", !.idx = g.idx + 1]
        ELSE [g EXCEPT !.hasMore = more, !.page = nextPage(g.page),
                       !.state = IF more THEN "awaiting" ELSE "completed"]

\* mutant: the generator stops after its second page
resume_PageCap(g) ==
    LET data == Val(g.response).data
        more == hasMoreOf(Val(g.response)) /\ g.page < startPage(g.options) + 1
    IN  IF g.idx < Len(data)
        THEN [g EXCEPT !.state = "suspendedYield", !.idx = g.idx + 1]
        ELSE [g EXCEPT !.hasMore = more, !.page = nextPage(g.page),
                       !.state = IF more THEN "awaiting" ELSE "completed"]

\* the generator run from the for-of loop over response.data, g.idx voicenotes
\* of it being yielded already, to its next suspension: the yield of the next
\* voicenote, or after the loop the await of the next list call, or the end
resume(g) ==
    LET data == Val(g.response).data
        more == hasMoreOf(Val(g.response))
    IN  IF g.idx < Len(data)
        THEN [g EXCEPT !.state = "suspendedYield", !.idx = g.idx + 1]
        ELSE [g EXCEPT !.hasMore = more, !.page = nextPage(g.page),
                       !.state = IF more THEN "awaiting" ELSE "completed"]

\* mutant: the list call goes on with the retry counter of the call before it
ListCall_KeepCounter(g) ==
    LET params == ListParams(withPage(g.options, g.page))
    IN  /\ listCalls' = Append(listCalls, params)
        /\ call' = "voicenotes.list"
        /\ config' = [_get(<<"voicenotes">>, Def(params)) EXCEPT
                            !._retryCount = config._retryCount]
        /\ pc' = "inflight"
        /\ attempts' = 1
        /\ delays' = <<>>
        /\ history' = <<>>
        /\ lastError' = undefined
        /\ retried' = undefined
        /\ result' = undefined
        /\ thrown' = <<>>

\* this.list({ ...options, page }): the first request of the call is sent
ListCall(g) ==
    LET params == ListParams(withPage(g.options, g.page))
    IN  /\ listCalls' = Append(listCalls, params)
        /\ call' = "voicenotes.list"
        /\ config' = _get(<<"voicenotes">>, Def(params))
        /\ pc' = "inflight"
        /\ attempts' = 1
        /\ delays' = <<>>
        /\ history' = <<>>
        /\ lastError' = undefined
        /\ retried' = undefined
        /\ result' = undefined
        /\ thrown' = <<>>

\* the generator has run to its next suspension g: the pending next() of the
\* consumer settles with the voicenote yielded or with done, or stays pending
\* while the next list call is made; answered tells that the run began with
\* the 2xx answer to a list call, which list returned the body of
Suspend(g, pulls, answered) ==
    /\ gen' = g
    /\ consumed' =
        [consumed EXCEPT
            !.pulls = pulls,
            !.items = IF g.state = "suspendedYield"
                      THEN Append(@, Val(g.response).data[g.idx]) ELSE @,
            !.end = IF g.state = "completed" THEN "done" ELSE @]
    /\ IF g.state = "awaiting"
       THEN ListCall(g)
       ELSE /\ listCalls' = listCalls
            /\ IF answered
               THEN /\ pc' = "done"
                    /\ history' = Append(history, Def(200))
                    /\ result' = g.response
                    /\ UNCHANGED <<call, config, attempts, delays, lastError, retried, thrown>>
               ELSE UNCHANGED reqVars

IterateInit ==
    /\ retryConfig \in {MergeRetryConfig(r) : r \in IterateRetryOptions}
    /\ IdleRequest
    /\ clsInput = undefined
    /\ clsOutput = undefined
    /\ IdleIterator
    /\ httpClient = createTransport(DefaultOptions, TRUE)
    /\ NoValidator
    /\ NoRequests
    /\ NoError

\* client.voicenotes.iterate(options): the generator object is created, none
\* of its body runs
Iterate ==
    /\ gen.state = "none"
    /\ \E o \in IterateOptions :
        gen' = [NoGenerator EXCEPT !.state = "suspendedStart", !.options = o]
    /\ UNCHANGED <<retryConfig, reqVars, clsVars, consumed, listCalls, pages, envVars,
                   sigVars, concVars, errVars>>

\* the consumer calls next() on the suspended generator
Pull ==
    /\ gen.state \in {"suspendedStart", "suspendedYield"}
    /\ consumed.end = "open"
    /\ Suspend(IF gen.state = "suspendedStart" THEN start(gen) ELSE resume(gen),
               consumed.pulls + 1, FALSE)
    /\ UNCHANGED <<retryConfig, clsVars, pages, envVars, sigVars, concVars, errVars>>

\* the transport answers the list call 2xx: list returns response.data and the
\* generator goes on with the for-of loop over the page
ListResponds ==
    /\ gen.state = "awaiting"
    /\ pc = "inflight"
    /\ \E n \in 0..MaxPageItems, pagination \in Paginations :
        LET response == ListResponse(Len(pages) + 1, n, pagination)
        IN  /\ hasMoreOf(response) => Len(pages) + 1 < MaxPages
            /\ pages' = Append(pages, response)
            /\ Suspend(resume([gen EXCEPT !.response = Def(response), !.idx = 0]),
                       consumed.pulls, TRUE)
    /\ UNCHANGED <<retryConfig, clsVars, envVars, sigVars, concVars, errVars>>

\* the transport fails an attempt of the list call: the interceptor retries it
\* or rejects, and then list throws the typed error inside the generator, which
\* ends and rejects the pending next()
ListFails ==
    /\ gen.state = "awaiting"
    /\ pc = "inflight"
    /\ \E error \in TransportFailures(config) :
        LET r == onRejected(error)
        IN  /\ history' = Append(history,
                    IF IsDef(error.response) THEN Def(Val(error.response).status)
                    ELSE undefined)
            /\ config' = r.config
            /\ IF r.retry
               THEN /\ pc' = "sleeping"
                    /\ delays' = Append(delays, r.delay)
                    /\ retried' = RetriedResponse(error)
                    /\ UNCHANGED <<lastError, thrown, gen, consumed>>
               ELSE /\ pc' = "failed"
                    /\ lastError' = Def(Rejection(error, r.config))
                    /\ thrown' = Append(thrown, Catch(Rejection(error, r.config)))
                    /\ gen' = [gen EXCEPT !.state = "completed"]
                    /\ consumed' =
                        [consumed EXCEPT
                            !.end = "error",
                            !.error = Def(Catch(Rejection(error, r.config)))]
                    /\ UNCHANGED <<delays, retried>>
    /\ UNCHANGED <<retryConfig, call, attempts, result, clsVars, listCalls, pages, envVars,
                   sigVars, concVars, errVars>>

\* the consumer leaves its for-await loop (break): return() ends the generator
\* at the yield it is suspended at
Return ==
    /\ gen.state = "suspendedYield"
    /\ consumed.end = "open"
    /\ gen' = [gen EXCEPT !.state = "completed"]
    /\ consumed' = [consumed EXCEPT !.end = "break"]
    /\ UNCHANGED <<retryConfig, reqVars, clsVars, listCalls, pages, envVars, sigVars,
                   concVars, errVars>>

IterateNext == Iterate \/ Pull \/ ListResponds \/ ListFails \/ TimerFires \/ Return

SpecIterate == IterateInit /\ [][IterateNext]_vars

(***************************************************************************)
(* The constructors on their own: the transport created for every API key  *)
(* of at most MaxKeyLen tokens                                             *)
(***************************************************************************)
MaxKeyLen == 5

KeyTokens == {"sk", "_", "live", "test", "x"}
BaseUrlOptions == {undefined, Def(""), Def("https://custom.example")}

\* neither a Client nor an AccessToken is constructed
NoTransport == [options |-> undefined, baseURL |-> undefined, retries |-> FALSE]

EnvironmentInit ==
    /\ retryConfig = DEFAULT_RETRY_CONFIG
    /\ IdleRequest
    /\ clsInput = undefined
    /\ clsOutput = undefined
    /\ IdleIterator
    /\ httpClient = NoTransport
    /\ NoValidator
    /\ NoRequests
    /\ NoError

\* new Client({ apiKey, baseUrl }): the transport has the retry interceptor
NewClient ==
    /\ httpClient = NoTransport
    /\ \E k \in 0..MaxKeyLen : \E f \in [1..k -> KeyTokens] : \E b \in BaseUrlOptions :
        httpClient' = createTransport([apiKey |-> SubSeq(f, 1, k), baseUrl |-> b], TRUE)
    /\ UNCHANGED <<retryConfig, reqVars, clsVars, iterVars, sigVars, concVars, errVars>>

\* new AccessToken({ apiKey, baseUrl }): a transport of its own, without one
NewAccessToken ==
    /\ httpClient = NoTransport
    /\ \E k \in 0..MaxKeyLen : \E f \in [1..k -> KeyTokens] : \E b \in BaseUrlOptions :
        httpClient' = createTransport([apiKey |-> SubSeq(f, 1, k), baseUrl |-> b], FALSE)
    /\ UNCHANGED <<retryConfig, reqVars, clsVars, iterVars, sigVars, concVars, errVars>>

EnvironmentNext == NewClient \/ NewAccessToken

SpecEnvironment == EnvironmentInit /\ [][EnvironmentNext]_vars

(***************************************************************************)
(* The validator on its own: signatures computed under one secret and      *)
(* validated by a RequestValidator holding another or the same             *)
(***************************************************************************)
Secrets == {<<"k">>, <<"j">>, <<"k", "NUL">>}
ValidatorSecrets == {<<"k">>, <<"j">>}
Payloads == {<<>>, <<"a">>, <<"d", ".", "a">>}
Timestamps == {undefined, Def(<<>>), Def(<<"1">>)}
DeliveryIds == {undefined, Def(<<>>), Def(<<"d">>)}

\* the same characters in upper case
toUpperCase(str) ==
    [i \in 1..Len(str) |->
        IF unhex(str[i]) >= 10 THEN UpperHexChars[unhex(str[i]) + 1] ELSE str[i]]

\* the signature strings a request can carry when sig was issued: sig with and
\* without the prefix, altered, cut and extended, and strings that are no
\* digest at all (3 and 200 characters, not hexadecimal, empty)
SignatureStrings(sig) ==
    {sig, SHA256_PREFIX \o sig,
     toUpperCase(sig), sig \o <<"z", "z">>, SubSeq(sig, 1, Len(sig) - 1),
     [sig EXCEPT ![1] = IF sig[1] = "0" THEN "1" ELSE "0"],
     <<"a", "b", "c">>, [i \in 1..200 |-> "a"], <<"x", "y", "z">>, <<>>, SHA256_PREFIX}

ValidatorInit ==
    /\ retryConfig = DEFAULT_RETRY_CONFIG
    /\ IdleRequest
    /\ clsInput = undefined
    /\ clsOutput = undefined
    /\ IdleIterator
    /\ httpClient = createTransport(DefaultOptions, TRUE)
    /\ authToken \in {Def(secret) : secret \in ValidatorSecrets}
    /\ issued = undefined
    /\ checked = undefined
    /\ NoRequests
    /\ NoError

\* computeSignature(payload, timestamp, deliveryId) of a RequestValidator
\* constructed with secret (the sender's, or the receiver's own)
ComputeSignature ==
    /\ issued = undefined
    /\ \E secret \in Secrets, payload \in Payloads, timestamp \in Timestamps,
          deliveryId \in DeliveryIds :
        issued' = Def([secret |-> secret, payload |-> payload, timestamp |-> timestamp,
                       deliveryId |-> deliveryId,
                       stringToSign |-> buildStringToSign(payload, timestamp, deliveryId),
                       signature |-> computeSignature(secret, payload, timestamp,
                                                      deliveryId)])
    /\ UNCHANGED <<retryConfig, reqVars, clsVars, iterVars, envVars, authToken, checked,
                   concVars, errVars>>

\* validate(payload, signature, { timestamp, deliveryId }) of the validator
ValidateSignature ==
    /\ issued # undefined
    /\ checked = undefined
    /\ \E payload \in Payloads, timestamp \in Timestamps, deliveryId \in DeliveryIds,
          signature \in SignatureStrings(Val(issued).signature) :
        LET options == [timestamp |-> timestamp, deliveryId |-> deliveryId]
        IN  checked' = Def([payload |-> payload, signature |-> signature,
                            options |-> options,
                            outcome |-> validate(Val(authToken), payload, signature,
                                                 options)])
    /\ UNCHANGED <<retryConfig, reqVars, clsVars, iterVars, envVars, authToken, issued,
                   concVars, errVars>>

ValidatorNext == ComputeSignature \/ ValidateSignature

SpecValidator == ValidatorInit /\ [][ValidatorNext]_vars

(***************************************************************************)
(* The Token Issuer: AccessToken.generate over a transport of its own      *)
(***************************************************************************)
\* GenerateTokenOptions values passed to generate
GenerateOptions ==
    {undefined,
     Def([expiresIn |-> Def(3600), scopes |-> Def(<<"voicenotes:read">>)]),
     Def([expiresIn |-> undefined, scopes |-> Def(<<>>)])}

\* the body generate posts for the identity
TokenRequest(identity, options) ==
    [user_id |-> identity,
     expires_in |-> IF IsDef(options) THEN Val(options).expiresIn ELSE undefined,
     scopes |-> IF IsDef(options) /\ IsDef(Val(options).scopes)
                THEN Val(Val(options).scopes) ELSE <<"voice-api.upload_voicenote">>]

\* the failures of a token request: those of any request, and the other
\* statuses a Client would retry
TokenFailures(cfg) ==
    TransportFailures(cfg) \cup
    {AxiosError("Request failed with status code", Def(cfg),
                Def([status |-> st, error |-> undefined, retry_after |-> undefined])) :
        st \in RETRYABLE_STATUS_CODES}

\* mutant: the transport of the AccessToken has the Client's retry interceptor
rejected_WithInterceptor(error) == onRejected(error)

\* a rejection on an axios instance without interceptors: it reaches the caller
\* as it is, nothing is resubmitted and the request config is not written to
rejected(error) == [retry |-> FALSE, config |-> config, delay |-> 0]

\* new AccessToken(options), in a process where a Client may exist as well
TokenInit ==
    /\ retryConfig \in {MergeRetryConfig(r) : r \in RetryOptions}
    /\ IdleRequest
    /\ clsInput = undefined
    /\ clsOutput = undefined
    /\ IdleIterator
    /\ httpClient = createTransport(DefaultOptions, FALSE)
    /\ NoValidator
    /\ NoRequests
    /\ NoError

\* token.generate(options): the request is posted
Generate ==
    /\ pc \in {"idle", "done", "failed"}
    /\ \E o \in GenerateOptions :
        config' = _post(<<"/", "token">>, TokenRequest("user_123", o))
    /\ call' = "token.generate"
    /\ pc' = "inflight"
    /\ attempts' = 1
    /\ delays' = <<>>
    /\ history' = <<>>
    /\ lastError' = undefined
    /\ retried' = undefined
    /\ result' = undefined
    /\ thrown' = <<>>
    /\ UNCHANGED <<retryConfig, clsVars, iterVars, envVars, sigVars, concVars, errVars>>

\* the transport answers 2xx: generate returns response.data
TokenResponds ==
    /\ pc = "inflight"
    /\ pc' = "done"
    /\ history' = Append(history, Def(200))
    /\ result' = Def("jwt_token")
    /\ UNCHANGED <<retryConfig, call, config, attempts, delays, lastError, retried, thrown, clsVars,
                   iterVars, envVars, sigVars, concVars, errVars>>

\* the transport fails the request: generate throws handleApiError(error)
TokenFails ==
    /\ pc = "inflight"
    /\ \E error \in TokenFailures(config) :
        LET r == rejected(error)
        IN  /\ history' = Append(history,
                    IF IsDef(error.response) THEN Def(Val(error.response).status)
                    ELSE undefined)
            /\ config' = r.config
            /\ IF r.retry
               THEN /\ pc' = "sleeping"
                    /\ delays' = Append(delays, r.delay)
                    /\ retried' = RetriedResponse(error)
                    /\ UNCHANGED <<lastError, thrown>>
               ELSE /\ pc' = "failed"
                    /\ lastError' = Def(Rejection(error, r.config))
                    /\ thrown' = Append(thrown, handleApiError(Rejection(error, r.config)))
                    /\ UNCHANGED <<delays, retried>>
    /\ UNCHANGED <<retryConfig, call, attempts, result, clsVars, iterVars, envVars,
                   sigVars, concVars, errVars>>

TokenNext == Generate \/ TokenResponds \/ TokenFails

SpecToken == TokenInit /\ [][TokenNext]_vars

(***************************************************************************)
(* Properties of the retry interceptor (checked under Spec)                *)
(***************************************************************************)
\* a delivered outcome that carries a status of the configured retryable set
Retryable(h) == IsDef(h) /\ Val(h) \in retryConfig.retryableStatuses
AllRetryable(hs) == \A i \in 1..Len(hs) : Retryable(hs[i])
Front(hs) == SubSeq(hs, 1, Len(hs) - 1)

\* C1: the attempt counter of a request starts at 0, is the number of retries
\* made (one more per retry), never exceeds maxRetries, so at most
\* maxRetries + 1 attempts are made; a call all of whose responses carried a
\* retryable status fails after exactly maxRetries + 1 attempts, with one error.
C1_AttemptCounterBounded ==
    /\ RetryCountOrZero(config) <= retryConfig.maxRetries
    /\ attempts <= retryConfig.maxRetries + 1
    /\ (pc = "inflight" /\ history = <<>>) => (attempts = 1 /\ RetryCountOrZero(config) = 0)
    /\ Len(delays) = RetryCountOrZero(config)
    /\ pc \in {"inflight", "done", "failed"} => attempts = RetryCountOrZero(config) + 1
    /\ pc = "sleeping" => attempts = RetryCountOrZero(config)
    /\ (pc = "failed" /\ AllRetryable(history)) =>
            (attempts = retryConfig.maxRetries + 1 /\ Len(thrown) = 1)

C1_Witness ==
    /\ pc = "failed"
    /\ retryConfig.maxRetries = 3
    /\ history = <<Def(500), Def(429), Def(500), Def(500)>>
    /\ attempts = 4
    /\ config._retryCount = Def(3)
    /\ Len(thrown) = 1

\* C2: after k <= maxRetries retryable responses the call is still alive and
\* nothing was thrown; a call that ended in success resolved with the data of
\* its last response (a delete, which returns nothing, with undefined), threw
\* nothing and made exactly as many attempts as it got responses (the k
\* failures and the success); with maxRetries = 0 a single 500 fails the call
\* after one attempt with a typed ServerError.
C2_SuccessAfterRetries ==
    /\ (history # <<>> /\ AllRetryable(history) /\ Len(history) <= retryConfig.maxRetries) =>
            (pc \in {"sleeping", "inflight"} /\ thrown = <<>>)
    /\ pc = "done" =>
            /\ config.method # "delete" => result = Def("data")
            /\ config.method = "delete" => result = undefined
            /\ thrown = <<>>
            /\ attempts = Len(history)
            /\ history[Len(history)] = Def(200)
            /\ AllRetryable(Front(history))
            /\ Len(history) - 1 <= retryConfig.maxRetries
    /\ (retryConfig.maxRetries = 0 /\ history = <<Def(500)>>) =>
            /\ pc = "failed"
            /\ attempts = 1
            /\ Len(thrown) = 1
            /\ thrown[1].name = "ServerError"
            /\ thrown[1].statusCode = Def(500)

C2_Witness ==
    /\ pc = "done"
    /\ retryConfig.maxRetries = 3
    /\ history = <<Def(500), Def(500), Def(200)>>
    /\ attempts = 3
    /\ result = Def("data")

\* no attempt follows a 400 response: the call fails there, with one error
NoRetryAfter400 ==
    \A i \in 1..Len(history) :
        history[i] = Def(400) =>
            (i = Len(history) /\ pc = "failed" /\ attempts = i /\ Len(thrown) = 1)

\* C3 as stated: for every client a 400 response is never retried
C3_Original == NoRetryAfter400

\* C3 amended: a 400 response is never retried, whatever maxRetries is, by
\* every client whose configured retryableStatuses does not contain 400 (the
\* default set does not)
C3_BadRequestNotRetried ==
    400 \notin retryConfig.retryableStatuses => NoRetryAfter400

C3_Witness ==
    /\ retryConfig.maxRetries = 3
    /\ retryConfig.retryableStatuses = RETRYABLE_STATUS_CODES
    /\ history = <<Def(400)>>
    /\ pc = "failed"
    /\ attempts = 1
    /\ thrown[1].name = "ValidationError"

\* C4: the n-th retry of a call is preceded by a delay of retryDelay * 2^(n-1):
\* the first delay is retryDelay and every later one is twice the one before;
\* the delay being slept is retryDelay * 2^(attempts made so far - 1)
C4_ExponentialBackoff ==
    /\ Len(delays) <= retryConfig.maxRetries
    /\ \A n \in 1..Len(delays) :
        /\ delays[n] = IF n = 1 THEN retryConfig.retryDelay ELSE 2 * delays[n - 1]
        /\ delays[n] = retryConfig.retryDelay * Pow2(n - 1)
    /\ pc = "sleeping" => Len(delays) = attempts

C4_Witness ==
    /\ pc = "sleeping"
    /\ retryConfig.retryDelay = RETRY_DELAY
    /\ delays = <<1000, 2000, 4000>>

\* C5: an attempt that fails without a response (no response status, or no
\* request config on the error) is never retried: the call fails there, so a
\* call whose first attempt fails this way makes exactly one attempt
C5_NoResponseNotRetried ==
    \A i \in 1..Len(history) :
        history[i] = undefined =>
            /\ i = Len(history)
            /\ pc = "failed"
            /\ attempts = i
            /\ Len(delays) = i - 1
            /\ Len(thrown) = 1

C5_Witness ==
    /\ retryConfig.maxRetries = 3
    /\ history = <<undefined>>
    /\ pc = "failed"
    /\ attempts = 1
    /\ Val(lastError).kind = "AxiosError"
    /\ IsDef(Val(lastError).config)
    /\ ~IsDef(Val(lastError).response)

\* the request an accessor operation sends: the one on its way is that of the
\* operation called, its counter apart
RequestOf(op) == {c.config : c \in {a \in AccessorCalls : a.op = op}}

\* C20: whatever its method, the request of a call is the same on every
\* attempt (method, path, query and body), and a retryable response to a POST,
\* PUT or DELETE is followed by another attempt as long as the budget lasts,
\* so that a create request is sent maxRetries + 1 times when every response
\* is retryable
C20_RetryWhateverTheMethod ==
    /\ call # "none" => [config EXCEPT !._retryCount = undefined] \in RequestOf(call)
    /\ (/\ config.method \in {"post", "put", "delete"}
        /\ history # <<>>
        /\ Retryable(history[Len(history)])) =>
            IF Len(history) <= retryConfig.maxRetries
            THEN pc \in {"sleeping", "inflight"} /\ attempts \in {Len(history), Len(history) + 1}
            ELSE pc = "failed" /\ attempts = retryConfig.maxRetries + 1

C20_Witness ==
    /\ call = "webhooks.create"
    /\ config.method = "post"
    /\ config.data = Def("webhook")
    /\ retryConfig.maxRetries = 3
    /\ history = <<Def(500), Def(500), Def(500)>>
    /\ pc = "inflight"
    /\ attempts = 4

(***************************************************************************)
(* Properties of the accessors' error path (checked under Spec)            *)
(***************************************************************************)
\* e is an error of the VocaFuseError taxonomy
TypedError(e) ==
    /\ "name" \in DOMAIN e
    /\ e.name \in ErrorNames
    /\ InstanceOf(e, "VocaFuseError")

\* C6: every accessor call that fails throws exactly one error, an error of the
\* VocaFuseError taxonomy, and returns nothing; a call that has not failed has
\* thrown nothing; a failure that is no transport error at all is classified
\* as the base kind, an Error keeping its original message.
C6_OneTypedErrorPerFailure ==
    /\ pc = "failed" => (Len(thrown) = 1 /\ TypedError(thrown[1]) /\ result = undefined)
    /\ pc # "failed" => thrown = <<>>
    /\ (pc = "failed" /\ Val(lastError).kind \in {"Error", "value"}) =>
            /\ thrown[1].name = "VocaFuseError"
            /\ thrown[1].statusCode = undefined
            /\ Val(lastError).kind = "Error" =>
                    thrown[1].message = Val(Val(lastError).message)

C6_Witness ==
    /\ pc = "failed"
    /\ call = "webhooks.create"
    /\ Val(lastError).kind = "Error"
    /\ thrown = <<VocaFuseError("boom", undefined, undefined, undefined, undefined)>>

\* C9 as stated: for a transcription.get() call awaiting its response there is
\* a server response for which the call rejects with a VoicenoteNotFoundError
C9_Original ==
    (pc = "inflight" /\ call = "transcription.get") =>
        \E error \in TransportFailures(config) :
            LET r == onRejected(error)
            IN  /\ ~r.retry
                /\ InstanceOf(Catch(Rejection(error, r.config)), "VoicenoteNotFoundError")

(***************************************************************************)
(* Properties of voicenotes.list (checked under Spec)                      *)
(***************************************************************************)
\* C13 as stated: whatever options voicenotes.list is called with, the limit
\* query parameter of the request sent lies in 1..100
C13_Original ==
    call = "voicenotes.list" => Val(config.params).limit \in 1..MAX_PAGE_LIMIT

(***************************************************************************)
(* Properties of voicenotes.iterate() (checked under SpecIterate)          *)
(***************************************************************************)
RECURSIVE ItemsOf(_)
\* the voicenotes of a sequence of list responses, page after page
ItemsOf(ps) == IF ps = <<>> THEN <<>> ELSE Head(ps).data \o ItemsOf(Tail(ps))

IsPrefix(s, t) == Len(s) <= Len(t) /\ SubSeq(t, 1, Len(s)) = s

\* C11: the k-th list call of an iteration asks for page p + k - 1, p being the
\* requested page (0 by default); the voicenotes yielded are always the first
\* ones of the fetched pages, in page order then item order, each once; an
\* iteration consumed to completion made one list call per fetched page,
\* yielded all their voicenotes, and the fetched pages are those up to and
\* including the first one whose has_more is not true
C11_IterateYieldsAllInOrder ==
    /\ \A k \in 1..Len(listCalls) : listCalls[k].page = startPage(gen.options) + k - 1
    /\ Len(pages) <= Len(listCalls) /\ Len(listCalls) <= Len(pages) + 1
    /\ IsPrefix(consumed.items, ItemsOf(pages))
    /\ \A i, j \in 1..Len(consumed.items) :
            consumed.items[i] = consumed.items[j] => i = j
    /\ \A k \in 1..(Len(pages) - 1) : hasMoreOf(pages[k])
    /\ consumed.end = "done" =>
            /\ pages # <<>>
            /\ Len(listCalls) = Len(pages)
            /\ consumed.items = ItemsOf(pages)
            /\ ~hasMoreOf(pages[Len(pages)])

C11_Witness ==
    /\ consumed.end = "done"
    /\ gen.options = undefined
    /\ Len(pages) = 2
    /\ Len(pages[1].data) = 2 /\ pages[1].pagination = Def([has_more |-> Def(TRUE)])
    /\ Len(pages[2].data) = 2 /\ pages[2].pagination = Def([has_more |-> Def(FALSE)])
    /\ Len(consumed.items) = 4
    /\ <<listCalls[1].page, listCalls[2].page>> = <<0, 1>>
    /\ Len(listCalls) = 2

\* C12: a list call is issued only by a pull that needs it: call number k only
\* once the consumer has pulled more often than the pages before it hold
\* voicenotes (the first one at the first pull, iterate() itself issuing
\* none); after a break no call is in flight, and the calls made are only
\* those for the pages the voicenotes received came from, whatever has_more
\* the last of them reported
C12_NoPrefetch ==
    /\ consumed.pulls <= Len(consumed.items) + 1
    /\ \A k \in 1..Len(listCalls) :
            consumed.pulls > Len(ItemsOf(SubSeq(pages, 1, k - 1)))
    /\ consumed.end = "break" =>
            /\ gen.state = "completed"
            /\ pc = "done"
            /\ consumed.pulls = Len(consumed.items)
            /\ Len(listCalls) = Len(pages)
            /\ Len(consumed.items) > Len(ItemsOf(Front(pages)))

C12_Witness ==
    /\ consumed.end = "break"
    /\ Len(consumed.items) = 2
    /\ Len(pages) = 1
    /\ Len(pages[1].data) = 2
    /\ hasMoreOf(pages[1])
    /\ Len(listCalls) = 1

(***************************************************************************)
(* Properties of the environment resolution (checked under SpecEnvironment)*)
(***************************************************************************)
\* C14: a transport constructed without a base URL of the caller's has the
\* test endpoint when the key begins with sk_test_ and the live endpoint for
\* every other key: those beginning with sk_live_, those of any other prefix
\* and the empty key; detectBaseUrl has a value for every key
C14_DetectBaseUrlTotal ==
    (httpClient # NoTransport /\ ~TruthyText(httpClient.options.baseUrl)) =>
        LET key == httpClient.options.apiKey
            isTest == /\ Len(key) >= 4
                      /\ <<key[1], key[2], key[3], key[4]>> = <<"sk", "_", "test", "_">>
            isLive == /\ Len(key) >= 4
                      /\ <<key[1], key[2], key[3], key[4]>> = <<"sk", "_", "live", "_">>
        IN  /\ httpClient.baseURL \in {API_ENDPOINTS.LIVE, API_ENDPOINTS.TEST}
            /\ isLive => httpClient.baseURL = "https://api.vocafuse.com"
            /\ isTest => httpClient.baseURL = "https://test-api.vocafuse.com"
            /\ ~isTest => httpClient.baseURL = "https://api.vocafuse.com"

C14_Witness ==
    /\ httpClient # NoTransport
    /\ httpClient.options = [apiKey |-> <<"x", "_", "test", "_">>, baseUrl |-> undefined]
    /\ httpClient.baseURL = "https://api.vocafuse.com"

(***************************************************************************)
(* Properties of the webhook validator (checked under SpecValidator)       *)
(***************************************************************************)
\* validate was called with the payload, timestamp and delivery id the issued
\* signature was computed from
SameInputs ==
    /\ Val(checked).payload = Val(issued).payload
    /\ Val(checked).options.timestamp = Val(issued).timestamp
    /\ Val(checked).options.deliveryId = Val(issued).deliveryId

\* validate was handed the issued signature, bare or with the sha256= prefix
OwnSignature ==
    \/ Val(checked).signature = Val(issued).signature
    \/ Val(checked).signature = SHA256_PREFIX \o Val(issued).signature

Returned(b) == Val(checked).outcome.threw = FALSE /\ Val(checked).outcome.value = b

\* C15 as stated: validate of the issued signature (bare or prefixed) with the
\* inputs it was computed from is true under the secret it was computed under
\* and false under every other secret
C15_Original ==
    (checked # undefined /\ SameInputs /\ OwnSignature) =>
        /\ Val(authToken) = Val(issued).secret => Returned(TRUE)
        /\ Val(authToken) # Val(issued).secret => Returned(FALSE)

\* C15 amended: validate of the issued signature (bare or prefixed) with the
\* inputs it was computed from is true whenever the validator's secret and the
\* signer's are the same HMAC key (equal up to trailing NUL characters), and
\* false whenever they are not
C15_ValidateAcceptsOwnSignature ==
    (checked # undefined /\ SameInputs /\ OwnSignature) =>
        /\ stripZeros(Val(authToken)) = stripZeros(Val(issued).secret) => Returned(TRUE)
        /\ stripZeros(Val(authToken)) # stripZeros(Val(issued).secret) => Returned(FALSE)

C15_Witness ==
    /\ checked # undefined
    /\ authToken = Def(<<"k">>)
    /\ Val(issued).secret = <<"k">>
    /\ Val(issued).timestamp = Def(<<"1">>)
    /\ Val(issued).deliveryId = Def(<<"d">>)
    /\ SameInputs
    /\ Val(checked).signature = SHA256_PREFIX \o Val(issued).signature
    /\ Returned(TRUE)

IsHexChar(c) ==
    c \in {"0", "1", "2", "3", "4", "5", "6", "7", "8", "9", "a", "b", "c", "d", "e", "f",
           "A", "B", "C", "D", "E", "F"}

\* the signature without its sha256= prefix
Unprefixed(sig) ==
    IF Len(sig) >= 7 /\ SubSeq(sig, 1, 7) = <<"s", "h", "a", "2", "5", "6", "=">>
    THEN SubSeq(sig, 8, Len(sig)) ELSE sig

\* a signature string that is not a digest: without its prefix it is not 64
\* characters long (too short, too long, empty) or holds a character that is
\* not hexadecimal
Malformed(sig) ==
    \/ Len(Unprefixed(sig)) # 64
    \/ \E i \in 1..Len(Unprefixed(sig)) : ~IsHexChar(Unprefixed(sig)[i])

\* validate raises for no signature string: it returns a boolean
NeverRaises ==
    checked # undefined =>
        /\ Val(checked).outcome.threw = FALSE
        /\ Val(checked).outcome.value \in BOOLEAN

\* C16 as stated: validate raises for no signature string, and it returns
\* false for every malformed one (too short, too long, not hexadecimal)
C16_Original ==
    /\ NeverRaises
    /\ (checked # undefined /\ Malformed(Val(checked).signature)) => Returned(FALSE)

\* a timestamp or delivery id that is given and not the empty string
Given(o) == IsDef(o) /\ Len(Val(o)) > 0

\* the issued signature was computed with a timestamp t: it is not the signature
\* of the payload alone, and validate without a timestamp rejects it
TimestampBinds(t) ==
    (issued # undefined /\ Val(issued).timestamp = t) =>
        /\ Val(issued).deliveryId = undefined =>
                Val(issued).signature #
                    computeSignature(Val(issued).secret, Val(issued).payload,
                                     undefined, undefined)
        /\ (/\ checked # undefined
            /\ Val(checked).payload = Val(issued).payload
            /\ Val(checked).options.timestamp = undefined
            /\ OwnSignature) => Returned(FALSE)

\* C17 as stated: for every timestamp value
C17_Original == \A t \in Timestamps \ {undefined} : TimestampBinds(t)

\* C17 amended: for every timestamp value but the empty string
C17_TimestampChangesSignature ==
    \A t \in Timestamps : Given(t) => TimestampBinds(t)

C17_Witness ==
    /\ checked # undefined
    /\ Val(issued).timestamp = Def(<<"1">>)
    /\ Val(issued).deliveryId = undefined
    /\ Val(issued).secret = Val(authToken)
    /\ Val(checked).payload = Val(issued).payload
    /\ Val(checked).options = [timestamp |-> undefined, deliveryId |-> undefined]
    /\ Val(checked).signature = Val(issued).signature
    /\ Returned(FALSE)

\* the canonical signing string of the claim
Canonical(payload, timestamp, deliveryId) ==
    IF Given(timestamp) /\ Given(deliveryId)
    THEN Val(timestamp) \o <<".">> \o Val(deliveryId) \o <<".">> \o payload
    ELSE IF Given(timestamp) THEN Val(timestamp) \o <<".">> \o payload
    ELSE payload

\* C18: the string computeSignature signed and the string validate signed are
\* "{timestamp}.{deliveryId}.{payload}" when both are given (not empty),
\* "{timestamp}.{payload}" when only the timestamp is, the payload otherwise,
\* also when a delivery id is given without a timestamp; for the same inputs
\* the two strings are the same
C18_CanonicalString ==
    /\ issued # undefined =>
            /\ Val(issued).stringToSign =
                    Canonical(Val(issued).payload, Val(issued).timestamp,
                              Val(issued).deliveryId)
            /\ (~Given(Val(issued).timestamp) /\ Given(Val(issued).deliveryId)) =>
                    Val(issued).stringToSign = Val(issued).payload
    /\ checked # undefined =>
            /\ Val(checked).outcome.stringToSign =
                    Canonical(Val(checked).payload, Val(checked).options.timestamp,
                              Val(checked).options.deliveryId)
            /\ SameInputs => Val(checked).outcome.stringToSign = Val(issued).stringToSign

C18_Witness ==
    /\ checked # undefined
    /\ Val(issued).payload = <<"a">>
    /\ Val(issued).timestamp = undefined
    /\ Val(issued).deliveryId = Def(<<"d">>)
    /\ Val(issued).stringToSign = <<"a">>
    /\ SameInputs
    /\ Val(checked).outcome.stringToSign = <<"a">>

(***************************************************************************)
(* Properties of the classifier (checked under SpecClassify)               *)
(***************************************************************************)
\* the failure classified is an HTTP failure: a transport error with a response
HttpFailure == IsDef(clsInput) /\ Val(clsInput).kind = "AxiosError"
                               /\ IsDef(Val(clsInput).response)
InStatus == Val(Val(clsInput).response).status
InUrl == IF IsDef(Val(clsInput).config) THEN Val(Val(clsInput).config).url ELSE undefined
Out == Val(clsOutput)

ExpectedKind(status) ==
    CASE status = 401 -> "AuthenticationError"
      [] status = 403 -> "AuthorizationError"
      [] status = 400 -> "ValidationError"
      [] status = 404 -> "NotFoundError"
      [] status = 409 -> "ConflictError"
      [] status = 429 -> "RateLimitError"
      [] OTHER -> IF status >= 500 THEN "ServerError" ELSE "VocaFuseError"

\* C7: for an HTTP failure the kind of the typed error is decided by the status
\* alone (404: NotFoundError or one of its subtypes) and its statusCode is the
\* response status
C7_KindByStatus ==
    HttpFailure =>
        /\ Out.statusCode = Def(InStatus)
        /\ InstanceOf(Out, ExpectedKind(InStatus))
        /\ InStatus # 404 => Out.name = ExpectedKind(InStatus)

C7_Witness ==
    /\ HttpFailure
    /\ InStatus = 500
    /\ Out.name = "ServerError"
    /\ Out.statusCode = Def(500)

\* resource identifiers: one path segment that is no collection name
OpaqueIds == {<<"id_1">>, <<"account">>, <<"id_1", "id_1">>}
\* what precedes the collection name: relative, absolute, under account/
PathPrefixes == {<<>>, <<"/">>, <<"account", "/">>}
ResourcePath(pre, collection, id) == pre \o <<collection, "/">> \o id
Keywords == {"voicenotes", "webhooks", "api-keys", "transcription"}

IsNotFoundOf(e, name, type, id) ==
    /\ e.name = name
    /\ IsDef(e.context)
    /\ Val(e.context).resourceType = Def(type)
    /\ Val(e.context).resourceId = Def(id)

\* C8: a 404 against [/]voicenotes/<id> is a VoicenoteNotFoundError, against
\* [/]voicenotes/<id>/transcription a TranscriptionNotFoundError, against
\* [/]webhooks/<id> and [/][account/]api-keys/<id> their own subtypes, each with
\* resourceId = <id>; against a path without any collection name, a bare
\* collection name or no path at all it is a NotFoundError of no subtype
C8_NotFoundByPath ==
    (HttpFailure /\ InStatus = 404) =>
        /\ \A pre \in PathPrefixes, id \in OpaqueIds :
            /\ InUrl = Def(ResourcePath(pre, "voicenotes", id)) =>
                    IsNotFoundOf(Out, "VoicenoteNotFoundError", "voicenote", id)
            /\ InUrl = Def(ResourcePath(pre, "voicenotes", id) \o <<"/", "transcription">>) =>
                    IsNotFoundOf(Out, "TranscriptionNotFoundError", "transcription", id)
            /\ InUrl = Def(ResourcePath(pre, "webhooks", id)) =>
                    IsNotFoundOf(Out, "WebhookNotFoundError", "webhook", id)
            /\ InUrl = Def(ResourcePath(pre, "api-keys", id)) =>
                    IsNotFoundOf(Out, "APIKeyNotFoundError", "api_key", id)
        /\ (\/ ~IsDef(InUrl)
            \/ \A i \in 1..Len(Val(InUrl)) : Val(InUrl)[i] \notin Keywords
            \/ \E k \in Keywords : Val(InUrl) = <<k>>) =>
                Out.name = "NotFoundError"

C8_Witness ==
    /\ HttpFailure
    /\ InStatus = 404
    /\ InUrl = Def(<<"voicenotes", "/", "id_1", "/", "transcription">>)
    /\ IsNotFoundOf(Out, "TranscriptionNotFoundError", "transcription", <<"id_1">>)

\* a decimal integer: digits, after an optional minus sign
IsDecimalInteger(h) ==
    LET ds == IF h # <<>> /\ Head(h) = "-" THEN Tail(h) ELSE h
    IN  ds # <<>> /\ \A i \in 1..Len(ds) : IsDigit(ds[i])

RECURSIVE DecimalMagnitude(_)
DecimalMagnitude(ds) ==
    IF ds = <<>> THEN 0
    ELSE 10 * DecimalMagnitude(SubSeq(ds, 1, Len(ds) - 1)) + DigitValue(ds[Len(ds)])

DecimalValue(h) ==
    IF Head(h) = "-" THEN 0 - DecimalMagnitude(Tail(h)) ELSE DecimalMagnitude(h)

\* C10: a 429 is a RateLimitError whose retryAfter is the integer n when the
\* Retry-After header is the decimal integer n, and undefined when there is no
\* such header
C10_RetryAfterExact ==
    (HttpFailure /\ InStatus = 429) =>
        LET h == Val(Val(clsInput).response).retry_after
        IN  /\ Out.name = "RateLimitError"
            /\ ~IsDef(h) => Out.retryAfter = undefined
            /\ (IsDef(h) /\ IsDecimalInteger(Val(h))) =>
                    Out.retryAfter = Def(Num(DecimalValue(Val(h))))

C10_Witness ==
    /\ HttpFailure
    /\ InStatus = 429
    /\ Val(Val(clsInput).response).retry_after = Def(<<"6", "0">>)
    /\ Out.retryAfter = Def(Num(60))

(***************************************************************************)
(* Properties of the Token Issuer (checked under SpecToken)                *)
(***************************************************************************)
\* C19: a generate() call makes one HTTP attempt and no more, whatever the
\* retry configuration of a Client is: nothing is slept, no retry counter is
\* written, and a call answered with a failure, a retryable status included,
\* has thrown one typed error, of the kind its status decides
C19_TokenIssuerNeverRetries ==
    /\ pc # "sleeping"
    /\ attempts <= 1
    /\ delays = <<>>
    /\ config._retryCount = undefined
    /\ pc = "failed" =>
            /\ attempts = 1
            /\ Len(history) = 1
            /\ Len(thrown) = 1
            /\ TypedError(thrown[1])
            /\ IsDef(history[1]) =>
                    /\ thrown[1].name = ExpectedKind(Val(history[1]))
                    /\ thrown[1].statusCode = history[1]

C19_Witness ==
    /\ call = "token.generate"
    /\ retryConfig = DEFAULT_RETRY_CONFIG
    /\ history = <<Def(503)>>
    /\ pc = "failed"
    /\ attempts = 1
    /\ thrown[1].name = "ServerError"

(***************************************************************************)
(* Properties of concurrent requests (checked under SpecConcurrent)        *)
(***************************************************************************)
RECURSIVE RetriesAlone(_, _)
\* the retries a request makes when it runs alone and the transport answers
\* its attempts with hs, n retries being made already
RetriesAlone(hs, n) ==
    IF hs # <<>> /\ Retryable(Head(hs)) /\ n < retryConfig.maxRetries
    THEN RetriesAlone(Tail(hs), n + 1)
    ELSE n

\* the request was sent as often as a request running alone is sent against
\* the responses it got, and its counter counts its own retries
RunsAsAlone(q) ==
    LET n == RetriesAlone(q.history, 0)
    IN  /\ q.attempts = IF q.pc = "sleeping" THEN n ELSE n + 1
        /\ IsDef(q.config._retryCount) => Val(q.config._retryCount) = n
        /\ q.pc \in {"done", "failed"} => Len(q.history) = q.attempts
        /\ q.pc = "inflight" => Len(q.history) = q.attempts - 1
        /\ q.pc = "sleeping" => Len(q.history) = q.attempts

\* C21: concurrent requests of one Client do not interfere: in every
\* interleaving the attempt counter of each request counts that request's own
\* retries only, each request makes as many attempts as it makes when it runs
\* alone against the same responses, and no step changes the retry
\* configuration the requests share.
C21_ConcurrentRequestsIndependent ==
    /\ [](\A i \in 1..Len(requests) : RunsAsAlone(requests[i]))
    /\ [][retryConfig' = retryConfig]_vars

\* two requests in their backoff at the same time, after a different number
\* of retries each
C21_Witness ==
    /\ Len(requests) = 2
    /\ requests[1].pc = "sleeping"
    /\ requests[2].pc = "sleeping"
    /\ requests[1].config._retryCount = Def(2)
    /\ requests[2].config._retryCount = Def(1)
    /\ requests[1].history = <<Def(500), Def(500)>>
    /\ requests[2].history = <<Def(500)>>

(***************************************************************************)
(* The state machine of one outbound request (checked under SpecFair).     *)
(* Pending is "inflight" or "sleeping", Done is "done", Failed is "failed".*)
(***************************************************************************)
Pending == pc \in {"inflight", "sleeping"}
Ended == pc \in {"done", "failed"}

\* the caller starts another request: nothing of the old one is carried over
NewRequest ==
    /\ pc' = "inflight"
    /\ attempts' = 1
    /\ history' = <<>>
    /\ RetryCountOrZero(config') = 0

\* one step of a request whose attempt is awaiting the transport
Settles ==
    LET answer == history'[Len(history')]
        count == RetryCountOrZero(config)
    IN  /\ Len(history') = Len(history) + 1
        /\ attempts' = attempts
        /\ \/ /\ answer = Def(200)
              /\ pc' = "done"
           \/ /\ Retryable(answer) /\ count < retryConfig.maxRetries
              /\ pc' = "sleeping"
              /\ RetryCountOrZero(config') = count + 1
           \/ /\ answer # Def(200)
              /\ ~(Retryable(answer) /\ count < retryConfig.maxRetries)
              /\ pc' = "failed"
              /\ RetryCountOrZero(config') = count

\* the backoff of a retry ends: the next attempt is sent
Resubmits ==
    /\ pc' = "inflight"
    /\ attempts' = attempts + 1
    /\ history' = history
    /\ config' = config

RequestStep ==
    /\ pc = "idle" => NewRequest
    /\ pc = "inflight" => Settles
    /\ pc = "sleeping" => Resubmits
    /\ Ended => NewRequest

\* C22: when the transport answers every attempt and every backoff sleep ends,
\* a request that is Pending eventually is Done or Failed; Done and Failed are
\* terminal (the only step after either is a new request of the caller); and
\* the only steps of a request are Pending -> Done on success, Pending ->
\* Pending with the counter incremented on a retryable failure below the
\* budget, and Pending -> Failed on every other failure.
C22_RequestStateMachine ==
    /\ Pending ~> Ended
    /\ [][RequestStep]_vars

\* a request that ended Failed after spending its whole budget, and one that
\* ended Done after a retry, are both reached
C22_Witness ==
    /\ pc = "done"
    /\ retryConfig.maxRetries = 2
    /\ history = <<Def(500), Def(429), Def(200)>>
    /\ attempts = 3

(***************************************************************************)
(* Properties of the error classes (checked under SpecConstruct)           *)
(***************************************************************************)
\* the suggestion the caller passed to the constructor
Supplied == IF IsDef(Val(built).context) THEN Val(Val(built).context).suggestion ELSE undefined

\* context.suggestion of the error constructed
Carried ==
    IF IsDef(Val(built).error.context) THEN Val(Val(built).error.context).suggestion
    ELSE undefined

SpecializedKinds == ErrorNames \ {"VocaFuseError"}
KindsWithContext == SpecializedKinds \ NotFoundSubtypes

AuthenticationDefault == <<"Verify your API key and secret are correct and not expired.">>
AuthorizationDefault ==
    <<"Check that your API key has the required permissions for this operation.">>
ServerDefault ==
    <<"This is a server-side issue. Please try again later or contact support if it persists.">>
RateLimitDefault == <<"Rate limit exceeded. Please reduce request frequency.">>
RateLimitWait(n) == <<"Rate limit exceeded. Retry after ", n, " seconds.">>
ResourceDefaults ==
    [VoicenoteNotFoundError |->
        <<"Verify the voicenote ID exists and belongs to your account.">>,
     WebhookNotFoundError |->
        <<"Verify the webhook ID exists. Use client.webhooks.list() to see available webhooks.">>,
     TranscriptionNotFoundError |->
        <<"The voicenote may still be processing. Check voicenote.status before accessing transcription.">>,
     APIKeyNotFoundError |->
        <<"Verify the API key ID exists. Use client.apiKeys.list() to see available keys.">>]

\* the suggestion of a kind whose constructor fills one in
DefaultOf(name, retryAfter) ==
    CASE name = "AuthenticationError" -> AuthenticationDefault
      [] name = "AuthorizationError" -> AuthorizationDefault
      [] name = "ServerError" -> ServerDefault
      [] name = "RateLimitError" ->
            IF IsDef(retryAfter) /\ ~Val(retryAfter).nan /\ Val(retryAfter).v # 0
            THEN RateLimitWait(Val(retryAfter).v)
            ELSE RateLimitDefault

NonEmpty(o) == IsDef(o) /\ Val(o) # <<"">>

\* C23 as stated: every specialized kind has one default suggestion, carried
\* whenever the caller supplied none, and a suggestion the caller supplied is
\* carried as it is
C23_Original ==
    (built # undefined /\ Val(built).name \in SpecializedKinds) =>
        /\ ~IsDef(Supplied) =>
            /\ IsDef(Carried)
            /\ Val(built).name = "RateLimitError" => Carried = Def(RateLimitDefault)
        /\ (Val(built).name \in KindsWithContext /\ IsDef(Supplied)) => Carried = Supplied

\* C23 amended: AuthenticationError, AuthorizationError and ServerError carry a
\* fixed default suggestion, and RateLimitError one that names the wait when a
\* non-zero retryAfter is given and a fixed text otherwise, whenever the caller
\* supplied no suggestion or an empty one; a non-empty suggestion of the caller
\* is kept by them.  ValidationError, NotFoundError and ConflictError have no
\* default: they carry the caller's context as it is.  The resource-specific
\* NotFound kinds take no context and always carry their own fixed suggestion.
C23_DefaultSuggestions ==
    built # undefined =>
        LET b == Val(built)
        IN  /\ b.name \in {"AuthenticationError", "AuthorizationError", "ServerError",
                           "RateLimitError"} =>
                Carried = IF NonEmpty(Supplied) THEN Supplied
                          ELSE Def(DefaultOf(b.name, b.retryAfter))
            /\ b.name \in {"ValidationError", "NotFoundError", "ConflictError"} =>
                b.error.context = b.context
            /\ b.name \in NotFoundSubtypes => Carried = Def(ResourceDefaults[b.name])

\* a RateLimitError constructed with retryAfter 60 and no suggestion, carrying
\* the suggestion that names the wait
C23_Witness ==
    /\ built # undefined
    /\ Val(built).name = "RateLimitError"
    /\ Val(built).retryAfter = Def(Num(60))
    /\ ~IsDef(Supplied)
    /\ Carried = Def(RateLimitWait(60))

(***************************************************************************)
(* Properties of the resource id of NotFound errors (checked under Spec)   *)
(***************************************************************************)
CollectionNames == {"voicenotes", "webhooks", "api-keys"}

\* id is the path segment that follows a collection name in path
FollowsCollection(path, id) ==
    \E k \in 1..(Len(path) - 2) :
        /\ path[k] \in CollectionNames
        /\ path[k + 1] = "/"
        /\ id = <<path[k + 2]>>

\* C24 as stated: a resource-specific NotFound error thrown by an accessor has
\* a context.resourceId, and it is the path segment that follows the
\* collection name in the request path
C24_Original ==
    \A i \in 1..Len(thrown) :
        thrown[i].name \in NotFoundSubtypes =>
            /\ IsDef(Val(thrown[i].context).resourceId)
            /\ FollowsCollection(Val(config.url), Val(Val(thrown[i].context).resourceId))

(***************************************************************************)
(* Properties of the error a retried call ends with (checked under Spec)   *)
(***************************************************************************)
LastOutcome == history[Len(history)]

\* C25: a call that failed on a response throws the classification of the
\* response to its last attempt, whatever the earlier attempts were answered
\* with, and all its retries were counted on one counter: responses 500, 404
\* end in a NotFoundError after 2 attempts, and responses 503, 429, 500, 500
\* with maxRetries = 3 in a ServerError of status 500 after 4 attempts.
C25_LastResponseClassified ==
    /\ (pc = "failed" /\ IsDef(LastOutcome)) =>
            /\ thrown = <<handleApiError(Val(lastError))>>
            /\ Val(Val(lastError).response).status = Val(LastOutcome)
            /\ thrown[1].statusCode = LastOutcome
            /\ InstanceOf(thrown[1], ExpectedKind(Val(LastOutcome)))
            /\ attempts = Len(history)
            /\ RetryCountOrZero(config) = Len(history) - 1
    /\ (history = <<Def(500), Def(404)>>) =>
            /\ pc = "failed"
            /\ InstanceOf(thrown[1], "NotFoundError")
            /\ attempts = 2
    /\ (history = <<Def(503), Def(429), Def(500), Def(500)>> /\ retryConfig.maxRetries = 3) =>
            /\ pc = "failed"
            /\ thrown[1].name = "ServerError"
            /\ thrown[1].statusCode = Def(500)
            /\ attempts = 4

C25_Witness ==
    /\ pc = "failed"
    /\ retryConfig.maxRetries = 3
    /\ history = <<Def(503), Def(429), Def(500), Def(500)>>
    /\ thrown[1].name = "ServerError"
    /\ attempts = 4

(***************************************************************************)
(* Properties of the wait before a retry (checked under Spec)              *)
(***************************************************************************)
\* the failure without its Retry-After header
WithoutRetryAfter(error) ==
    IF IsDef(error.response)
    THEN [error EXCEPT !.response = Def([Val(@) EXCEPT !.retry_after = undefined])]
    ELSE error

\* C26: the wait before the n-th retry is retryDelay * 2^(n-1) and nothing
\* else: the interceptor decides and waits the same for a failure with a
\* Retry-After header as for the failure without it; and when 429 is a
\* retryable status, a call throws a RateLimitError only once it has made
\* maxRetries retries.
C26_DelayIgnoresRetryAfter ==
    /\ \A n \in 1..Len(delays) : delays[n] = retryConfig.retryDelay * Pow2(n - 1)
    /\ (retried # undefined /\ pc = "sleeping") =>
            /\ Len(delays) = RetryCountOrZero(config)
            /\ delays[Len(delays)] =
                    retryConfig.retryDelay * Pow2(RetryCountOrZero(config) - 1)
    /\ pc = "inflight" =>
            \A error \in TransportFailures(config) :
                onRejected(error) = onRejected(WithoutRetryAfter(error))
    /\ (thrown # <<>> /\ thrown[1].name = "RateLimitError"
            /\ 429 \in retryConfig.retryableStatuses) =>
            /\ RetryCountOrZero(config) = retryConfig.maxRetries
            /\ Len(delays) = retryConfig.maxRetries
            /\ attempts = retryConfig.maxRetries + 1

\* a 429 whose Retry-After header says 7 seconds is being retried after the
\* second backoff delay of 2000 ms
C26_Witness ==
    /\ pc = "sleeping"
    /\ retried = Def([status |-> Def(429), retry_after |-> Def(<<"7">>)])
    /\ retryConfig.retryDelay = RETRY_DELAY
    /\ delays = <<1000, 2000>>

(***************************************************************************)
(* Strictness of the webhook validator (checked under SpecValidator)       *)
(***************************************************************************)
\* the digest computeSignature of the validator returns for the arguments of
\* the validate call
ExpectedDigest ==
    computeSignature(Val(authToken), Val(checked).payload, Val(checked).options.timestamp,
                     Val(checked).options.deliveryId)

\* C27 as stated: validate returns true only for the 64-character lower-case
\* hexadecimal digest its own computeSignature returns for the same payload
\* and options, bare or behind one sha256= prefix
C27_Original ==
    (checked # undefined /\ Returned(TRUE)) =>
        Unprefixed(Val(checked).signature) = ExpectedDigest

\* C28 as stated: validate accepts a signature issued for (payload, timestamp,
\* deliveryId) only with that same payload, timestamp and deliveryId
C28_Original ==
    (checked # undefined /\ OwnSignature /\ Returned(TRUE)) => SameInputs

\* the canonical signing string of the issued signature and of the validate call
IssuedCanonical ==
    Canonical(Val(issued).payload, Val(issued).timestamp, Val(issued).deliveryId)
CheckedCanonical ==
    Canonical(Val(checked).payload, Val(checked).options.timestamp,
              Val(checked).options.deliveryId)

\* C28 amended: a signature binds the canonical signing string, not the three
\* fields: validate accepts a signature issued for (payload, timestamp,
\* deliveryId) exactly when its own payload and options give the same
\* canonical string and its secret is the same HMAC key.  The same fields
\* always give the same string; different fields give the same string when
\* they differ in an empty or absent timestamp or delivery id, in a delivery
\* id without a timestamp, or in where the "." boundaries fall.
C28_SignatureBindsCanonicalString ==
    (checked # undefined /\ OwnSignature) =>
        /\ Returned(TRUE) <=>
                /\ CheckedCanonical = IssuedCanonical
                /\ stripZeros(Val(authToken)) = stripZeros(Val(issued).secret)
        /\ SameInputs => CheckedCanonical = IssuedCanonical

\* a signature issued for payload "a" with timestamp "1" and delivery id "d"
\* is accepted for payload "d.a" with timestamp "1" and no delivery id
C28_Witness ==
    /\ checked # undefined
    /\ Val(issued).payload = <<"a">>
    /\ Val(issued).timestamp = Def(<<"1">>)
    /\ Val(issued).deliveryId = Def(<<"d">>)
    /\ Val(checked).payload = <<"d", ".", "a">>
    /\ Val(checked).options = [timestamp |-> Def(<<"1">>), deliveryId |-> undefined]
    /\ Val(checked).signature = Val(issued).signature
    /\ Returned(TRUE)

(***************************************************************************)
(* Properties of the end of voicenotes.iterate() (checked under            *)
(* SpecIterate)                                                            *)
(***************************************************************************)
\* the page reports has_more = true
ReportsMore(p) ==
    /\ p.pagination # undefined
    /\ Val(p.pagination).has_more = Def(TRUE)

LastPage == pages[Len(pages)]

\* the consumer has pulled beyond every voicenote of the pages fetched
PulledBeyondPages ==
    /\ pages # <<>>
    /\ consumed.items = ItemsOf(pages)
    /\ consumed.pulls > Len(consumed.items)

\* C29: an iteration that is consumed to its end ends after the first page
\* fetched that does not report has_more = true (has_more false or missing,
\* or no pagination block), and only there: every page before reported
\* has_more = true, and after a page that reports has_more = true, be it empty,
\* the next pull makes the list call for the next page number instead of
\* ending, however many pages were fetched already.
C29_EndsAtFirstPageWithoutMore ==
    /\ \A k \in 1..(Len(pages) - 1) : ReportsMore(pages[k])
    /\ consumed.end = "done" => (PulledBeyondPages /\ ~ReportsMore(LastPage))
    /\ (PulledBeyondPages /\ Len(listCalls) = Len(pages) /\ ~ReportsMore(LastPage)) =>
            (consumed.end = "done" /\ gen.state = "completed")
    /\ (PulledBeyondPages /\ ReportsMore(LastPage)) =>
            /\ consumed.end # "done"
            /\ Len(listCalls) = Len(pages) + 1
            /\ listCalls[Len(listCalls)].page = startPage(gen.options) + Len(pages)
            /\ consumed.end = "open" => gen.state = "awaiting"

\* one pull has made three list calls, for the pages 0, 1 and 2, because the
\* first two pages were empty and reported has_more = true
C29_Witness ==
    /\ gen.state = "awaiting"
    /\ gen.options = undefined
    /\ consumed.pulls = 1
    /\ Len(pages) = 2
    /\ pages[1].data = <<>> /\ ReportsMore(pages[1])
    /\ pages[2].data = <<>> /\ ReportsMore(pages[2])
    /\ <<listCalls[1].page, listCalls[2].page, listCalls[3].page>> = <<0, 1, 2>>

\* the state of an iteration whose page fetch failed
FailedFetch ==
    /\ gen.state = "completed"
    /\ pc = "failed"
    /\ consumed.error # undefined
    /\ TypedError(Val(consumed.error))
    /\ thrown = <<Val(consumed.error)>>
    /\ attempts = Len(history)
    /\ AllRetryable(Front(history))
    /\ consumed.items = ItemsOf(pages)
    /\ \A i, j \in 1..Len(consumed.items) :
            consumed.items[i] = consumed.items[j] => i = j
    /\ consumed.pulls = Len(consumed.items) + 1
    /\ Len(listCalls) = Len(pages) + 1

\* C30: every list call of an iteration starts with no retries counted; when
\* one fails after its retries, the pull that needed the page is rejected
\* with the one typed error the call threw, every voicenote of the pages
\* fetched before was delivered once and in order, and afterwards no list call
\* is made and nothing more is delivered.
C30_IterateFailsOnce ==
    /\ []((gen.state = "awaiting" /\ history = <<>>) =>
            (pc = "inflight" /\ attempts = 1 /\ config._retryCount = undefined))
    /\ [](consumed.end = "error" => FailedFetch)
    /\ [](consumed.error # undefined => consumed.end = "error")
    /\ [][consumed.end = "error" =>
            (listCalls' = listCalls /\ consumed' = consumed /\ reqVars' = reqVars)]_vars

\* the second page could not be fetched: its list call was answered 500 and,
\* after the one retry, 404; the two voicenotes of the first page were
\* delivered and the third pull was rejected
C30_Witness ==
    /\ consumed.end = "error"
    /\ retryConfig.maxRetries = 1
    /\ Len(pages) = 1
    /\ Len(consumed.items) = 2
    /\ consumed.pulls = 3
    /\ history = <<Def(500), Def(404)>>
    /\ Val(consumed.error).name = "NotFoundError"
    /\ Len(listCalls) = 2

====
